---- MODULE Spec2Model ----
(***************************************************************************)
(* Model of scratchCAD's siding calculator (src/main.py): unit conversion, *)
(* rectangular / pitched-triangular sections, openings, Wall, OrientedWall *)
(* with direction normalisation, and WallContainer.                        *)
(*                                                                         *)
(* Numbers.  A Python int is an integer of any size and a Python float is  *)
(* an IEEE-754 double; both are records [kind, fp, sign, man, exp] with    *)
(* the value (-1)^sign * man * 2^exp.  + - * / // %, float(), int(),       *)
(* math.ceil, math.sqrt, math.isclose, max and the comparisons are         *)
(* computed as CPython computes them: an operation on two ints is exact,   *)
(* any other is rounded to the nearest double, ties to even, with signed   *)
(* zeros, subnormals, infinities and NaN.  A float ** 2 is the C library's *)
(* pow(x, 2.0), computed step by step as glibc 2.36 computes it on x86-64  *)
(* with fused multiply-add, which is not always x * x.  Num(k) is the int  *)
(* k, Float(k) the float k.0 and Frac(n, d) the float literal n/d          *)
(* (Frac(1, 10) is the double 0.1).                                        *)
(*                                                                         *)
(* Outcomes.  Every modelled function gives a value or the exception it    *)
(* raises, Raise(type, msg); an operation on a raised operand gives that   *)
(* exception, the left operand's first, as evaluation order has it.        *)
(*                                                                         *)
(* Strings.  A Python str is the sequence of its Unicode code points;      *)
(* strip() removes the white space of str.isspace() and lower() is the     *)
(* lower case of Unicode 14.0, as CPython 3.11 computes them.              *)
(***************************************************************************)
EXTENDS Integers, Sequences, FiniteSets, TLC

VARIABLES walls, _walls, args, ret

vars == <<walls, _walls, args, ret>>

\* ---------------------------------------------------------------- bounds
MaxCalls == 7
MaxBase == 5
MaxArea == 150
MaxItems == 4
MaxStored == 3

\* ---------------------------------------------------------------- numbers
\* Natural numbers of any size are little-endian sequences of digits in
\* base 2^15 with no leading zero digit (<<>> is 0), so that no product of
\* two digits leaves 32-bit integers.
Base == 2 ^ 15

Dig(x, i) == IF i <= Len(x) THEN x[i] ELSE 0

\* x without its leading zero digits
BNorm(x) ==
    LET nz == {i \in 1..Len(x) : x[i] # 0}
    IN  IF nz = {} THEN <<>>
        ELSE SubSeq(x, 1, CHOOSE i \in nz : \A j \in nz : j <= i)

\* the digits of an integer 0 <= n < 2^31
BNat(n) ==
    IF n = 0 THEN <<>>
    ELSE IF n < Base THEN <<n>>
    ELSE IF n < Base * Base THEN <<n % Base, n \div Base>>
    ELSE <<n % Base, (n \div Base) % Base, n \div (Base * Base)>>

\* -1, 0 or 1 as x < y, x = y or x > y
BCmp(x, y) ==
    IF Len(x) < Len(y) THEN -1
    ELSE IF Len(x) > Len(y) THEN 1
    ELSE IF x = y THEN 0
    ELSE LET i == CHOOSE j \in 1..Len(x) :
                      x[j] # y[j] /\ \A k \in (j + 1)..Len(x) : x[k] = y[k]
         IN  IF x[i] < y[i] THEN -1 ELSE 1

\* x + y: the carry into digit i comes from a lower digit whose sum leaves
\* the base, passed on by digits whose sum is the top digit
BAdd(x, y) ==
    IF y = <<>> THEN x
    ELSE IF x = <<>> THEN y
    ELSE LET n == (IF Len(x) > Len(y) THEN Len(x) ELSE Len(y)) + 1
             s == [i \in 1..n |-> Dig(x, i) + Dig(y, i)]
             c == [i \in 1..n |->
                      IF \E j \in 1..(i - 1) :
                             s[j] >= Base /\ \A k \in (j + 1)..(i - 1) : s[k] >= Base - 1
                      THEN 1 ELSE 0]
         IN  BNorm([i \in 1..n |-> (s[i] + c[i]) % Base])

\* x - y for x >= y, with the borrows found the same way
BSub(x, y) ==
    IF y = <<>> THEN x
    ELSE LET n == Len(x)
             d == [i \in 1..n |-> x[i] - Dig(y, i)]
             b == [i \in 1..n |->
                      IF \E j \in 1..(i - 1) :
                             d[j] < 0 /\ \A k \in (j + 1)..(i - 1) : d[k] <= 0
                      THEN 1 ELSE 0]
         IN  BNorm([i \in 1..n |-> (d[i] - b[i] + Base) % Base])

\* x * d for one digit d: the low halves of the digit products plus their
\* high halves one place up
BMulSmall(x, d) ==
    IF d = 0 \/ x = <<>> THEN <<>>
    ELSE IF d = 1 THEN x
    ELSE BAdd(BNorm([i \in 1..Len(x) |-> (x[i] * d) % Base]),
              BNorm([i \in 1..(Len(x) + 1) |->
                        IF i = 1 THEN 0 ELSE (x[i - 1] * d) \div Base]))

\* x * y, by halving y
RECURSIVE BMul(_, _)
BMul(x, y) ==
    IF x = <<>> \/ y = <<>> THEN <<>>
    ELSE IF Len(y) = 1 THEN BMulSmall(x, y[1])
    ELSE LET h  == Len(y) \div 2
             lo == BMul(x, BNorm(SubSeq(y, 1, h)))
             hi == BMul(x, SubSeq(y, h + 1, Len(y)))
         IN  BAdd(lo, [i \in 1..h |-> 0] \o hi)

\* x * 2^k
BShl(x, k) ==
    IF x = <<>> THEN <<>>
    ELSE [i \in 1..(k \div 15) |-> 0] \o BMulSmall(x, 2 ^ (k % 15))

\* x div 2^k
BShr(x, k) ==
    LET q == k \div 15
        r == k % 15
    IN  IF q >= Len(x) THEN <<>>
        ELSE BNorm([i \in 1..(Len(x) - q) |->
                       (x[i + q] \div 2 ^ r) + (Dig(x, i + q + 1) % 2 ^ r) * 2 ^ (15 - r)])

\* bit k of x (bit 0 is the lowest)
BBit(x, k) == (Dig(x, k \div 15 + 1) \div 2 ^ (k % 15)) % 2

\* x mod 2^k = 0
BLowZero(x, k) ==
    /\ \A i \in 1..(k \div 15) : Dig(x, i) = 0
    /\ Dig(x, k \div 15 + 1) % 2 ^ (k % 15) = 0

\* the number of bits of x
BBitLen(x) ==
    IF x = <<>> THEN 0
    ELSE 15 * (Len(x) - 1)
           + (CHOOSE n \in 1..15 : 2 ^ (n - 1) <= x[Len(x)] /\ x[Len(x)] < 2 ^ n)

\* the number of trailing zero bits of x > 0
BTz(x) ==
    LET i == CHOOSE j \in 1..Len(x) : x[j] # 0 /\ \A h \in 1..(j - 1) : x[h] = 0
    IN  15 * (i - 1)
          + (CHOOSE n \in 0..14 : x[i] % 2 ^ n = 0 /\ x[i] % 2 ^ (n + 1) # 0)

\* digits lo..hi of x div d and the remainder, given the remainder r < d
\* left by the digits above hi, for one digit d > 0
RECURSIVE BDivSmallAt(_, _, _, _, _)
BDivSmallAt(x, d, lo, hi, r) ==
    IF lo = hi THEN <<<<(r * Base + x[lo]) \div d>>, (r * Base + x[lo]) % d>>
    ELSE LET mid == (lo + hi) \div 2
             top == BDivSmallAt(x, d, mid + 1, hi, r)
             bot == BDivSmallAt(x, d, lo, mid, top[2])
         IN  IF top[2] < 0 THEN top ELSE <<bot[1] \o top[1], bot[2]>>

\* <<x div d, x mod d>> for one digit d > 0
BDivSmall(x, d) ==
    IF x = <<>> THEN <<<<>>, 0>>
    ELSE LET r == BDivSmallAt(x, d, 1, Len(x), 0) IN <<BNorm(r[1]), r[2]>>

\* long division, one quotient digit at a time: y has its top bit set in
\* its top digit and the remainder r is below Base * y.  The digit q, not
\* too small, is corrected downwards; the result is the digit and what is
\* left of r
RECURSIVE BFit(_, _, _)
BFit(y, r, q) ==
    IF BCmp(BMulSmall(y, q), r) > 0 THEN BFit(y, r, q - 1)
    ELSE <<<<q>>, BSub(r, BMulSmall(y, q))>>

\* one step: the quotient digit, estimated from the top two digits of the
\* remainder r, and the remainder it leaves
BDivStep(y, r) ==
    LET n   == Len(y)
        est == (Dig(r, n + 1) * Base + Dig(r, n)) \div y[n]
    IN  IF Len(r) < n THEN <<<<0>>, r>>
        ELSE BFit(y, r, IF est >= Base THEN Base - 1 ELSE est)

\* digits lo..hi of the quotient and the remainder, given the remainder r
\* left by the digits above hi; digit x[lo] is brought down to it
RECURSIVE BDivAt(_, _, _, _, _)
BDivAt(x, y, lo, hi, r) ==
    IF lo > hi THEN <<<<>>, r>>
    ELSE IF lo = hi THEN BDivStep(y, BNorm(<<x[lo]>> \o r))
    ELSE LET mid == (lo + hi) \div 2
             top == BDivAt(x, y, mid + 1, hi, r)
             bot == BDivAt(x, y, lo, mid, top[2])
         IN  IF Len(top[2]) < 0 THEN top ELSE <<bot[1] \o top[1], bot[2]>>

\* the quotient without leading zeros and the remainder shifted back
BUnshift(r, sh) == <<BNorm(r[1]), BShr(r[2], sh)>>

\* the division of xs by ys, both shifted left by sh so that ys has its top
\* bit set
BLong(xs, ys, sh) ==
    BUnshift(BDivAt(xs, ys, 1, Len(xs) - Len(ys) + 1,
                    SubSeq(xs, Len(xs) - Len(ys) + 2, Len(xs))), sh)

\* <<x div y, x mod y>> for y > 0
BDivMod(x, y) ==
    IF Len(y) = 1 THEN LET r == BDivSmall(x, y[1]) IN <<r[1], BNat(r[2])>>
    ELSE IF BCmp(x, y) < 0 THEN <<<<>>, x>>
    ELSE LET sh == 15 - (BBitLen(y) - 15 * (Len(y) - 1))
         IN  BLong(BShl(x, sh), BShl(y, sh), sh)

\* the integer square root of x and what it leaves, <<r, x - r * r>>, by
\* Newton's iteration from above: h is the iterate after g
RECURSIVE BSqrtFrom(_, _)
BSqrtNext(x, g, h) ==
    IF BCmp(h, g) < 0 THEN BSqrtFrom(x, h) ELSE <<g, BSub(x, BMul(g, g))>>

BSqrtFrom(x, g) == BSqrtNext(x, g, BShr(BAdd(g, BDivMod(x, g)[1]), 1))

BSqrt(x) ==
    IF x = <<>> THEN <<<<>>, <<>>>>
    ELSE BSqrtFrom(x, BShl(<<1>>, (BBitLen(x) + 1) \div 2))

\* A Python number is (-1)^sign * man * 2^exp with man odd (<<>> for 0,
\* with exp 0): an int of any size, or a float, which is a finite IEEE-754
\* double (man < 2^53, exp >= -1074, below 2^1024), an infinity or a NaN.
Number(kind, fp, sign, man, exp) ==
    [kind |-> kind, fp |-> fp, sign |-> sign, man |-> man, exp |-> exp]

\* the number (-1)^s * M * 2^E, for any M
Dyadic(kind, s, M, E) ==
    IF M = <<>> THEN Number(kind, "fin", IF kind = "int" THEN 0 ELSE s, <<>>, 0)
    ELSE LET tz == BTz(M) IN Number(kind, "fin", s, BShr(M, tz), E + tz)

Inf(s) == Number("float", "inf", s, <<>>, 0)
NaN == Number("float", "nan", 0, <<>>, 0)

\* the int k and the float k.0, for -2^31 < k < 2^31
Num(k) == Dyadic("int", IF k < 0 THEN 1 ELSE 0, BNat(IF k < 0 THEN -k ELSE k), 0)
Float(k) == [Num(k) EXCEPT !.kind = "float"]
Zero == Float(0)

\* an outcome that is not a value: a raised exception.  The messages are the
\* source's, with its one non-ASCII character spelled out (<= and >=).
Raise(type, msg) == [kind |-> "raise", type |-> type, msg |-> msg]
Raised(v) == v.kind = "raise"
None == [kind |-> "none"]

\* the double (-1)^s * K * 2^Q, or the infinity when it is out of range
Pack(s, K, Q) ==
    IF BBitLen(K) + Q > 1024 THEN Inf(s) ELSE Dyadic("float", s, K, Q)

\* the d low bits of M rounded away, to the nearest, ties to even
RoundAt(s, M, E, sticky, d) ==
    Pack(s,
         IF d <= 0 THEN M
         ELSE IF /\ BBit(M, d - 1) = 1
                 /\ \/ sticky
                    \/ ~BLowZero(M, d - 1)
                    \/ BBit(M, d) = 1
              THEN BAdd(BShr(M, d), <<1>>)
              ELSE BShr(M, d),
         IF d <= 0 THEN E ELSE E + d)

\* (-1)^s * (M + f) * 2^E rounded to the nearest double, ties to even, where
\* 0 < f < 1 if sticky and f = 0 if not; with sticky, M has 55 bits or more.
\* The bits rounded away are those beyond the 53rd and those below 2^-1074.
Round(s, M, E, sticky) ==
    RoundAt(s, M, E, sticky,
            IF E + BBitLen(M) - 53 > -1074 THEN BBitLen(M) - 53 ELSE -1074 - E)

\* (q + f) * 2^E rounded, where qr = <<q, r>> and f # 0 exactly if r # 0
RoundInexact(s, qr, E) == Round(s, qr[1], E, qr[2] # <<>>)

\* a result r, or the OverflowError when it is out of the doubles' range
OrOverflow(r, msg) == IF r.fp = "inf" THEN Raise("OverflowError", msg) ELSE r

\* float(a) for an int or a float a
float(a) ==
    IF Raised(a) \/ a.kind = "float" THEN a
    ELSE OrOverflow(Round(a.sign, a.man, a.exp, FALSE),
                    "int too large to convert to float")

IsZero(a) == a.fp = "fin" /\ a.man = <<>>
FNeg(a) == IF Raised(a) \/ a.fp = "nan" THEN a ELSE [a EXCEPT !.sign = 1 - @]
FAbs(a) == [a EXCEPT !.sign = 0]

\* (-1)^s * M * 2^E as a number of the kind: a float is rounded
Value(kind, s, M, E) ==
    IF kind = "float" THEN Round(s, M, E, FALSE) ELSE Dyadic(kind, s, M, E)

\* (-1)^sa * A * 2^E + (-1)^sb * B * 2^E
Aligned(kind, sa, A, sb, B, E) ==
    Value(kind,
          IF sa = sb THEN sa
          ELSE IF A = B THEN 0
          ELSE IF BCmp(A, B) > 0 THEN sa ELSE sb,
          IF sa = sb THEN BAdd(A, B)
          ELSE IF BCmp(A, B) > 0 THEN BSub(A, B) ELSE BSub(B, A),
          E)

\* the sum of two finite numbers that are not 0
DSum(kind, a, b) ==
    Aligned(kind,
            a.sign, BShl(a.man, a.exp - (IF a.exp < b.exp THEN a.exp ELSE b.exp)),
            b.sign, BShl(b.man, b.exp - (IF a.exp < b.exp THEN a.exp ELSE b.exp)),
            IF a.exp < b.exp THEN a.exp ELSE b.exp)

\* big + small when small is below the last place of big by more than
\* any rounding can see
FAddFar(big, small) ==
    Round(big.sign,
          IF big.sign = small.sign THEN BShl(big.man, 60)
          ELSE BSub(BShl(big.man, 60), <<1>>),
          big.exp - 60, TRUE)

\* float + float: IEEE-754 addition.  This and the operations below are
\* applied to converted operands, and pass on a failed conversion.
FAdd(a, b) ==
    IF Raised(a) THEN a
    ELSE IF Raised(b) THEN b
    ELSE IF a.fp = "nan" \/ b.fp = "nan" THEN NaN
    ELSE IF a.fp = "inf" THEN (IF b.fp = "inf" /\ b.sign # a.sign THEN NaN ELSE a)
    ELSE IF b.fp = "inf" THEN b
    ELSE IF a.man = <<>> /\ b.man = <<>>
         THEN Number("float", "fin", IF a.sign = 1 /\ b.sign = 1 THEN 1 ELSE 0, <<>>, 0)
    ELSE IF a.man = <<>> THEN b
    ELSE IF b.man = <<>> THEN a
    ELSE IF a.exp - b.exp > 130 \/ b.exp - a.exp > 130
         THEN FAddFar(IF a.exp > b.exp THEN a ELSE b, IF a.exp > b.exp THEN b ELSE a)
    ELSE DSum("float", a, b)

FSub(a, b) == FAdd(a, FNeg(b))

\* float * float: IEEE-754 multiplication
FMul(a, b) ==
    IF Raised(a) THEN a
    ELSE IF Raised(b) THEN b
    ELSE IF a.fp = "nan" \/ b.fp = "nan" THEN NaN
    ELSE IF a.fp = "inf" \/ b.fp = "inf"
         THEN (IF IsZero(a) \/ IsZero(b) THEN NaN ELSE Inf((a.sign + b.sign) % 2))
    ELSE Round((a.sign + b.sign) % 2, BMul(a.man, b.man), a.exp + b.exp, FALSE)

\* the quotient of two finite numbers a and b # 0, correctly rounded: 56
\* bits or more of it, and whether anything is left
DDiv(a, b) ==
    LET k0 == 56 + BBitLen(b.man) - BBitLen(a.man)
        k  == IF k0 > 0 THEN k0 ELSE 0
    IN  IF a.man = <<>> THEN Number("float", "fin", (a.sign + b.sign) % 2, <<>>, 0)
        ELSE RoundInexact((a.sign + b.sign) % 2,
                          BDivMod(BShl(a.man, k), b.man), a.exp - b.exp - k)

\* float / float: a divisor of 0 raises, as in CPython's float_div
FDiv(a, b) ==
    IF Raised(a) THEN a
    ELSE IF Raised(b) THEN b
    ELSE IF IsZero(b) THEN Raise("ZeroDivisionError", "float division by zero")
    ELSE IF a.fp = "nan" \/ b.fp = "nan" THEN NaN
    ELSE IF a.fp = "inf" THEN (IF b.fp = "inf" THEN NaN ELSE Inf((a.sign + b.sign) % 2))
    ELSE IF b.fp = "inf" THEN Number("float", "fin", (a.sign + b.sign) % 2, <<>>, 0)
    ELSE DDiv(a, b)

\* -1, 0 or 1 as |a| < |b|, |a| = |b| or |a| > |b|, for finite a and b
MagCmp(a, b) ==
    LET la == BBitLen(a.man) + a.exp
        lb == BBitLen(b.man) + b.exp
        E  == IF a.exp < b.exp THEN a.exp ELSE b.exp
    IN  IF a.man = <<>> THEN (IF b.man = <<>> THEN 0 ELSE -1)
        ELSE IF b.man = <<>> THEN 1
        ELSE IF la < lb THEN -1
        ELSE IF la > lb THEN 1
        ELSE BCmp(BShl(a.man, a.exp - E), BShl(b.man, b.exp - E))

\* -1, 0 or 1 as a < b, a = b or a > b, for numbers that are not NaN (Python
\* compares an int with a float by value, without rounding the int)
Cmp(a, b) ==
    LET sa == IF IsZero(a) THEN 0 ELSE 1 - 2 * a.sign
        sb == IF IsZero(b) THEN 0 ELSE 1 - 2 * b.sign
    IN  IF sa # sb THEN (IF sa < sb THEN -1 ELSE 1)
        ELSE IF sa = 0 THEN 0
        ELSE IF a.fp = "inf" THEN (IF b.fp = "inf" THEN 0 ELSE sa)
        ELSE IF b.fp = "inf" THEN -sa
        ELSE sa * MagCmp(a, b)

Ordered(a, b) == a.fp # "nan" /\ b.fp # "nan"
Lt(a, b) == Ordered(a, b) /\ Cmp(a, b) < 0
Le(a, b) == Ordered(a, b) /\ Cmp(a, b) <= 0
Gt(a, b) == Lt(b, a)
Ge(a, b) == Le(b, a)
Eq(a, b) == Ordered(a, b) /\ Cmp(a, b) = 0

\* max(a, b): b if b > a, else a
max(a, b) == IF Raised(a) THEN a ELSE IF Raised(b) THEN b ELSE IF Gt(b, a) THEN b ELSE a

BothInt(a, b) == a.kind = "int" /\ b.kind = "int"

\* a + b: an operand that raised is passed on, ints are added exactly, and
\* otherwise both operands are converted to float
Add(a, b) ==
    IF Raised(a) THEN a
    ELSE IF Raised(b) THEN b
    ELSE IF BothInt(a, b)
    THEN (IF a.man = <<>> THEN b
          ELSE IF b.man = <<>> THEN a
          ELSE DSum("int", a, b))
    ELSE FAdd(float(a), float(b))

\* a - b
Sub(a, b) ==
    IF Raised(a) THEN a
    ELSE IF Raised(b) THEN b
    ELSE IF BothInt(a, b)
    THEN (IF b.man = <<>> THEN a
          ELSE IF a.man = <<>> THEN [b EXCEPT !.sign = 1 - @]
          ELSE DSum("int", a, [b EXCEPT !.sign = 1 - @]))
    ELSE FSub(float(a), float(b))

\* a * b
Mul(a, b) ==
    IF Raised(a) THEN a
    ELSE IF Raised(b) THEN b
    ELSE IF BothInt(a, b)
    THEN Dyadic("int", (a.sign + b.sign) % 2, BMul(a.man, b.man), a.exp + b.exp)
    ELSE FMul(float(a), float(b))

\* a / b: the quotient of two ints is rounded once
Div(a, b) ==
    IF Raised(a) THEN a
    ELSE IF Raised(b) THEN b
    ELSE IF BothInt(a, b)
    THEN (IF b.man = <<>> THEN Raise("ZeroDivisionError", "division by zero")
          ELSE OrOverflow(DDiv(a, b), "integer division result too large for a float"))
    ELSE FDiv(float(a), float(b))

\* math.sqrt of a float: the IEEE-754 square root
FSqrt(a) ==
    IF Raised(a) THEN a
    ELSE IF Lt(a, Zero) THEN Raise("ValueError", "math domain error")
    ELSE IF a.fp # "fin" \/ a.man = <<>> THEN a
    ELSE LET j0 == 110 - BBitLen(a.man)
             j  == IF (a.exp - j0) % 2 = 0 THEN j0 ELSE j0 + 1
         IN  RoundInexact(0, BSqrt(BShl(a.man, j)), (a.exp - j) \div 2)

\* math.sqrt(a)
sqrt(a) == FSqrt(float(a))

\* the whole part of |a| for a finite a, as digits
Whole(a) == IF a.exp >= 0 THEN BShl(a.man, a.exp) ELSE BShr(a.man, -a.exp)

\* C's floor(a) and its fmod(a, b) for b # 0; both are exact
FFloor(a) ==
    IF a.fp # "fin" \/ a.exp >= 0 THEN a
    ELSE IF a.sign = 0 THEN Dyadic("float", 0, Whole(a), 0)
    ELSE Dyadic("float", 1, BAdd(Whole(a), <<1>>), 0)

FMod(a, b) ==
    IF a.fp # "fin" \/ b.fp = "nan" THEN NaN
    ELSE IF b.fp = "inf" \/ MagCmp(a, b) < 0 THEN a
    ELSE Dyadic("float", a.sign,
                BDivMod(BShl(a.man, a.exp - (IF a.exp < b.exp THEN a.exp ELSE b.exp)),
                        BShl(b.man, b.exp - (IF a.exp < b.exp THEN a.exp ELSE b.exp)))[2],
                IF a.exp < b.exp THEN a.exp ELSE b.exp)

\* float % and //, as C does them: mod = fmod(vx, wx) and div = (vx - mod) / wx;
\* when mod is not 0 and its sign is not wx's, mod += wx and div -= 1.0
FixSign(wx, mod) == ~IsZero(mod) /\ (Lt(wx, Zero) # Lt(mod, Zero))

FixedMod(wx, mod) ==
    IF IsZero(mod) THEN Number("float", "fin", wx.sign, <<>>, 0)
    ELSE IF FixSign(wx, mod) THEN FAdd(mod, wx) ELSE mod

FixedDiv(wx, mod, div) == IF FixSign(wx, mod) THEN FSub(div, Float(1)) ELSE div

\* floordiv is floor(div), one more if div - floor(div) > 0.5, and a zero of
\* the quotient's sign if div is 0
Snapped(div, fl) ==
    IF Gt(FSub(div, fl), Dyadic("float", 0, <<1>>, -1)) THEN FAdd(fl, Float(1))
    ELSE fl

FloorOfDiv(vx, wx, div) ==
    IF IsZero(div) THEN Number("float", "fin", (vx.sign + wx.sign) % 2, <<>>, 0)
    ELSE Snapped(div, FFloor(div))

FloorFrom(vx, wx, mod) ==
    FloorOfDiv(vx, wx, FixedDiv(wx, mod, FDiv(FSub(vx, mod), wx)))

\* float // float
float_floor_div(vx, wx) ==
    IF Raised(vx) THEN vx
    ELSE IF Raised(wx) THEN wx
    ELSE IF IsZero(wx) THEN Raise("ZeroDivisionError", "float floor division by zero")
    ELSE FloorFrom(vx, wx, FMod(vx, wx))

\* float % float
float_rem(vx, wx) ==
    IF Raised(vx) THEN vx
    ELSE IF Raised(wx) THEN wx
    ELSE IF IsZero(wx) THEN Raise("ZeroDivisionError", "float modulo")
    ELSE FixedMod(wx, FMod(vx, wx))

\* the floor quotient and the remainder of ints with the quotient and the
\* remainder qr of their magnitudes, for a divisor b # 0; neg when the
\* signs differ
IntFloor(neg, qr, b) ==
    <<Dyadic("int", IF neg THEN 1 ELSE 0,
             IF neg /\ qr[2] # <<>> THEN BAdd(qr[1], <<1>>) ELSE qr[1], 0),
      Dyadic("int", b.sign,
             IF neg /\ qr[2] # <<>> THEN BSub(Whole(b), qr[2]) ELSE qr[2], 0)>>

int_div_mod(a, b) == IntFloor(a.sign # b.sign, BDivMod(Whole(a), Whole(b)), b)

\* a // b
FloorDiv(a, b) ==
    IF Raised(a) THEN a
    ELSE IF Raised(b) THEN b
    ELSE IF BothInt(a, b)
    THEN (IF b.man = <<>>
          THEN Raise("ZeroDivisionError", "integer division or modulo by zero")
          ELSE int_div_mod(a, b)[1])
    ELSE float_floor_div(float(a), float(b))

\* a % b
Mod(a, b) ==
    IF Raised(a) THEN a
    ELSE IF Raised(b) THEN b
    ELSE IF BothInt(a, b)
    THEN (IF b.man = <<>>
          THEN Raise("ZeroDivisionError", "integer modulo by zero")
          ELSE int_div_mod(a, b)[2])
    ELSE float_rem(float(a), float(b))

\* the exception int(a) and math.ceil(a) raise for a float with no integer
\* value
NotInteger(a) ==
    IF a.fp = "nan"
    THEN Raise("ValueError", "cannot convert float NaN to integer")
    ELSE Raise("OverflowError", "cannot convert float infinity to integer")

\* int(a): a float is truncated towards 0
int(a) ==
    IF Raised(a) \/ a.kind = "int" THEN a
    ELSE IF a.fp # "fin" THEN NotInteger(a)
    ELSE Dyadic("int", a.sign, Whole(a), 0)

\* math.ceil(a)
ceil(a) ==
    IF Raised(a) \/ a.kind = "int" THEN a
    ELSE IF a.fp # "fin" THEN NotInteger(a)
    ELSE IF a.exp >= 0 \/ a.sign = 1 THEN Dyadic("int", a.sign, Whole(a), 0)
    ELSE Dyadic("int", 0, BAdd(Whole(a), <<1>>), 0)

\* the float literal n/d (as 0.1 is 1/10): the double nearest to n/d
Frac(n, d) == FDiv(Float(n), Float(d))

\* the float literals 0.5, 1e-9 and 1e-12
Half == Frac(1, 2)
rel_tol == Frac(1, 1000000000)
abs_tol == FDiv(Float(1), FMul(Float(1000000), Float(1000000)))

\* the three bounds of math.isclose on the difference
Within(diff, a, b) ==
    \/ Le(diff, FAbs(FMul(rel_tol, b)))
    \/ Le(diff, FAbs(FMul(rel_tol, a)))
    \/ Le(diff, abs_tol)

\* math.isclose(a, b, rel_tol=1e-9, abs_tol=1e-12) on floats
isclose(a, b) ==
    \/ Eq(a, b)
    \/ a.fp # "inf" /\ b.fp # "inf" /\ Within(FAbs(FSub(b, a)), a, b)

\* ------------------------------------------------------------ float ** 2
\* A float ** 2 is C's pow(x, 2.0), which is not the rounded product: the C
\* library computes exp(2 * log(x)) with log(x) in two parts, from tables
\* and polynomials, and its result can be the double next to the rounded
\* product (95.97 ** 2 is 9210.2409000000007, 95.97 * 95.97 is
\* 9210.240899999999).  It is computed here operation by operation.

\* the double (-1)^s * M * 2^E of the tables
Double(s, M, E) == Number("float", "fin", s, M, E)

\* C's fma(a, b, c) for finite a, b and c: a * b + c rounded once
FFma(a, b, c) ==
    IF a.man = <<>> \/ b.man = <<>>
    THEN FAdd(Number("float", "fin", (a.sign + b.sign) % 2, <<>>, 0), c)
    ELSE IF c.man = <<>> THEN FMul(a, b)
    ELSE DSum("float",
              Number("real", "fin", (a.sign + b.sign) % 2,
                     BMul(a.man, b.man), a.exp + b.exp),
              c)

\* the data of pow's logarithm: ln 2 in two parts, the coefficients A[0..6]
\* of the polynomial, and for each of the 128 intervals of [0.7057, 1.4114)
\* the reciprocal 1/c of a point c of it, log(c) and the tail of log(c)
pow_log_data ==
    [ln2hi |-> Double(0, <<24391, 4287, 2839>>, -42),
     ln2lo |-> Double(0, <<30323, 29304, 15573, 15>>, -93),
     poly |-> <<
        Double(1, <<1>>, -1),
        Double(1, <<10923, 21845, 10922, 5>>, -48),
        Double(0, <<3, 0, 0, 64>>, -52),
        Double(0, <<10919, 6489, 13107, 102>>, -52),
        Double(1, <<21053, 21801, 10922, 85>>, -52),
        Double(1, <<17897, 13968, 9582, 146>>, -52),
        Double(0, <<16323, 5708, 174, 128>>, -52)>>,
     tab |-> <<
        <<Double(0, <<181>>, -7), Double(1, <<22329, 8380, 2838>>, -43),
          Double(0, <<28333, 4256, 21921, 1>>, -93)>>,
        <<Double(0, <<45>>, -5), Double(1, <<27393, 28527, 2792>>, -43),
          Double(1, <<1977, 3470, 5281, 7>>, -93)>>,
        <<Double(0, <<179>>, -7), Double(1, <<26795, 7621, 2747>>, -43),
          Double(1, <<20589, 11116, 2707, 155>>, -97)>>,
        <<Double(0, <<89>>, -6), Double(1, <<26047, 11105, 2701>>, -43),
          Double(1, <<26581, 15712, 5010, 180>>, -101)>>,
        <<Double(0, <<177>>, -7), Double(1, <<12015, 6117, 2655>>, -43),
          Double(1, <<18935, 6450, 877, 5>>, -94)>>,
        <<Double(0, <<11>>, -3), Double(1, <<4323, 6332, 652>>, -41),
          Double(0, <<8499, 9254, 22575, 39>>, -96)>>,
        <<Double(0, <<175>>, -7), Double(1, <<20693, 3105, 2562>>, -43),
          Double(0, <<1437, 28034, 1511, 113>>, -101)>>,
        <<Double(0, <<87>>, -6), Double(1, <<11561, 4885, 2515>>, -43),
          Double(0, <<3235, 26725, 5688, 4>>, -92)>>,
        <<Double(0, <<173>>, -7), Double(1, <<13617, 8054, 154>>, -39),
          Double(0, <<16457, 21701, 12955, 85>>, -96)>>,
        <<Double(0, <<43>>, -5), Double(1, <<22281, 3627, 605>>, -41),
          Double(0, <<25979, 9837, 15759, 22>>, -94)>>,
        <<Double(0, <<171>>, -7), Double(1, <<31697, 22148, 2372>>, -43),
          Double(0, <<12351, 28063, 10322, 174>>, -98)>>,
        <<Double(0, <<171>>, -7), Double(1, <<31697, 22148, 2372>>, -43),
          Double(0, <<12351, 28063, 10322, 174>>, -98)>>,
        <<Double(0, <<85>>, -6), Double(1, <<31215, 20606, 2324>>, -43),
          Double(1, <<27963, 10323, 13384, 89>>, -97)>>,
        <<Double(0, <<169>>, -7), Double(1, <<11571, 9776, 2276>>, -43),
          Double(1, <<21761, 13427, 12220, 63>>, -96)>>,
        <<Double(0, <<21>>, -4), Double(1, <<30069, 22314, 2227>>, -43),
          Double(0, <<10895, 18032, 18417, 15>>, -94)>>,
        <<Double(0, <<167>>, -7), Double(1, <<13769, 25342, 2178>>, -43),
          Double(1, <<11571, 32005, 20873, 90>>, -96)>>,
        <<Double(0, <<83>>, -6), Double(1, <<10041, 25756, 1064>>, -42),
          Double(1, <<391, 32500, 22492, 113>>, -98)>>,
        <<Double(0, <<165>>, -7), Double(1, <<19277, 1202, 1040>>, -42),
          Double(1, <<11647, 15848, 23266, 129>>, -100)>>,
        <<Double(0, <<165>>, -7), Double(1, <<19277, 1202, 1040>>, -42),
          Double(1, <<11647, 15848, 23266, 129>>, -100)>>,
        <<Double(0, <<41>>, -5), Double(1, <<13689, 18627, 507>>, -41),
          Double(0, <<15495, 22322, 23722, 234>>, -99)>>,
        <<Double(0, <<163>>, -7), Double(1, <<24291, 2780, 990>>, -42),
          Double(0, <<11209, 20035, 9911, 54>>, -95)>>,
        <<Double(0, <<81>>, -6), Double(1, <<25263, 24813, 1929>>, -43),
          Double(1, <<32753, 27271, 19411, 11>>, -94)>>,
        <<Double(0, <<161>>, -7), Double(1, <<11583, 24843, 469>>, -41),
          Double(0, <<26651, 30612, 27206, 141>>, -97)>>,
        <<Double(0, <<5>>, -2), Double(1, <<15573, 32636, 913>>, -42),
          Double(0, <<24845, 13391, 31055, 46>>, -95)>>,
        <<Double(0, <<5>>, -2), Double(1, <<15573, 32636, 913>>, -42),
          Double(0, <<24845, 13391, 31055, 46>>, -95)>>,
        <<Double(0, <<159>>, -7), Double(1, <<17113, 20686, 1776>>, -43),
          Double(0, <<14223, 25367, 15040, 202>>, -98)>>,
        <<Double(0, <<79>>, -6), Double(1, <<14851, 7754, 431>>, -41),
          Double(0, <<18483, 16333, 7366, 105>>, -103)>>,
        <<Double(0, <<157>>, -7), Double(1, <<32299, 30595, 1672>>, -43),
          Double(1, <<24821, 23622, 6345, 86>>, -96)>>,
        <<Double(0, <<157>>, -7), Double(1, <<32299, 30595, 1672>>, -43),
          Double(1, <<24821, 23622, 6345, 86>>, -96)>>,
        <<Double(0, <<39>>, -5), Double(1, <<20293, 19283, 1620>>, -43),
          Double(1, <<21731, 2435, 18276, 214>>, -97)>>,
        <<Double(0, <<155>>, -7), Double(1, <<21005, 29708, 1567>>, -43),
          Double(0, <<31241, 32695, 30461, 221>>, -97)>>,
        <<Double(0, <<77>>, -6), Double(1, <<4231, 14480, 757>>, -42),
          Double(0, <<26955, 7316, 28104, 27>>, -94)>>,
        <<Double(0, <<77>>, -6), Double(1, <<4231, 14480, 757>>, -42),
          Double(0, <<26955, 7316, 28104, 27>>, -94)>>,
        <<Double(0, <<153>>, -7), Double(1, <<29085, 16892, 1461>>, -43),
          Double(1, <<28979, 9138, 18645, 67>>, -97)>>,
        <<Double(0, <<19>>, -4), Double(1, <<2681, 26126, 1407>>, -43),
          Double(1, <<20537, 15904, 30990, 244>>, -98)>>,
        <<Double(0, <<19>>, -4), Double(1, <<2681, 26126, 1407>>, -43),
          Double(1, <<20537, 15904, 30990, 244>>, -98)>>,
        <<Double(0, <<151>>, -7), Double(1, <<14875, 23740, 1353>>, -43),
          Double(1, <<23439, 8206, 31278, 134>>, -97)>>,
        <<Double(0, <<75>>, -6), Double(1, <<22935, 13485, 162>>, -40),
          Double(0, <<24079, 12442, 3265, 46>>, -96)>>,
        <<Double(0, <<75>>, -6), Double(1, <<22935, 13485, 162>>, -40),
          Double(0, <<24079, 12442, 3265, 46>>, -96)>>,
        <<Double(0, <<149>>, -7), Double(1, <<489, 16260, 1244>>, -43),
          Double(0, <<10781, 19751, 28940, 69>>, -99)>>,
        <<Double(0, <<37>>, -5), Double(1, <<511, 10847, 1189>>, -43),
          Double(1, <<14465, 1500, 18072, 20>>, -94)>>,
        <<Double(0, <<147>>, -7), Double(1, <<10619, 29357, 566>>, -42),
          Double(1, <<20939, 6161, 328, 122>>, -96)>>,
        <<Double(0, <<147>>, -7), Double(1, <<10619, 29357, 566>>, -42),
          Double(1, <<20939, 6161, 328, 122>>, -96)>>,
        <<Double(0, <<73>>, -6), Double(1, <<19721, 28623, 1077>>, -43),
          Double(0, <<5885, 17524, 27030, 52>>, -97)>>,
        <<Double(0, <<73>>, -6), Double(1, <<19721, 28623, 1077>>, -43),
          Double(0, <<5885, 17524, 27030, 52>>, -97)>>,
        <<Double(0, <<145>>, -7), Double(1, <<3807, 18707, 1021>>, -43),
          Double(1, <<6649, 23715, 27304, 85>>, -96)>>,
        <<Double(0, <<9>>, -3), Double(1, <<28203, 19982, 120>>, -40),
          Double(0, <<15, 5496, 13356, 52>>, -95)>>,
        <<Double(0, <<9>>, -3), Double(1, <<28203, 19982, 120>>, -40),
          Double(0, <<15, 5496, 13356, 52>>, -95)>>,
        <<Double(0, <<143>>, -7), Double(1, <<15727, 29348, 453>>, -42),
          Double(1, <<24323, 22623, 6318, 116>>, -97)>>,
        <<Double(0, <<71>>, -6), Double(1, <<21079, 9939, 850>>, -43),
          Double(0, <<30041, 31254, 7322, 21>>, -94)>>,
        <<Double(0, <<71>>, -6), Double(1, <<21079, 9939, 850>>, -43),
          Double(0, <<30041, 31254, 7322, 21>>, -94)>>,
        <<Double(0, <<141>>, -7), Double(1, <<12685, 13405, 792>>, -43),
          Double(0, <<27341, 21323, 15892, 19>>, -95)>>,
        <<Double(0, <<141>>, -7), Double(1, <<12685, 13405, 792>>, -43),
          Double(0, <<27341, 21323, 15892, 19>>, -95)>>,
        <<Double(0, <<35>>, -5), Double(1, <<22315, 3368, 734>>, -43),
          Double(1, <<14829, 18739, 11887, 90>>, -96)>>,
        <<Double(0, <<139>>, -7), Double(1, <<30769, 12403, 675>>, -43),
          Double(0, <<24151, 17292, 2413, 248>>, -98)>>,
        <<Double(0, <<139>>, -7), Double(1, <<30769, 12403, 675>>, -43),
          Double(0, <<24151, 17292, 2413, 248>>, -98)>>,
        <<Double(0, <<69>>, -6), Double(1, <<12511, 7545, 616>>, -43),
          Double(0, <<5087, 6642, 31595, 226>>, -97)>>,
        <<Double(0, <<69>>, -6), Double(1, <<12511, 7545, 616>>, -43),
          Double(0, <<5087, 6642, 31595, 226>>, -97)>>,
        <<Double(0, <<137>>, -7), Double(1, <<23879, 5339, 139>>, -41),
          Double(0, <<8969, 27935, 29049, 163>>, -98)>>,
        <<Double(0, <<17>>, -4), Double(1, <<35, 10435, 248>>, -42),
          Double(0, <<3729, 1645, 26234, 234>>, -97)>>,
        <<Double(0, <<17>>, -4), Double(1, <<35, 10435, 248>>, -42),
          Double(0, <<3729, 1645, 26234, 234>>, -97)>>,
        <<Double(0, <<135>>, -7), Double(1, <<25139, 2933, 218>>, -42),
          Double(0, <<7187, 29419, 634, 57>>, -96)>>,
        <<Double(0, <<135>>, -7), Double(1, <<25139, 2933, 218>>, -42),
          Double(0, <<7187, 29419, 634, 57>>, -96)>>,
        <<Double(0, <<67>>, -6), Double(1, <<22731, 8903, 375>>, -43),
          Double(1, <<20727, 13554, 30860, 115>>, -96)>>,
        <<Double(0, <<67>>, -6), Double(1, <<22731, 8903, 375>>, -43),
          Double(1, <<20727, 13554, 30860, 115>>, -96)>>,
        <<Double(0, <<133>>, -7), Double(1, <<26619, 29757, 313>>, -43),
          Double(0, <<32597, 29990, 1391, 84>>, -99)>>,
        <<Double(0, <<133>>, -7), Double(1, <<26619, 29757, 313>>, -43),
          Double(0, <<32597, 29990, 1391, 84>>, -99)>>,
        <<Double(0, <<33>>, -5), Double(1, <<25039, 24742, 15>>, -39),
          Double(1, <<633, 15935, 38, 51>>, -95)>>,
        <<Double(0, <<33>>, -5), Double(1, <<25039, 24742, 15>>, -39),
          Double(1, <<633, 15935, 38, 51>>, -95)>>,
        <<Double(0, <<131>>, -7), Double(1, <<4011, 25708, 189>>, -43),
          Double(1, <<9785, 10229, 13650, 196>>, -97)>>,
        <<Double(0, <<65>>, -6), Double(1, <<11327, 24660, 31>>, -41),
          Double(1, <<27047, 31593, 7804, 62>>, -100)>>,
        <<Double(0, <<65>>, -6), Double(1, <<11327, 24660, 31>>, -41),
          Double(1, <<27047, 31593, 7804, 62>>, -100)>>,
        <<Double(0, <<129>>, -7), Double(1, <<9905, 31749, 7>>, -40),
          Double(1, <<4153, 1773, 25151, 51>>, -96)>>,
        <<Double(0, <<129>>, -7), Double(1, <<9905, 31749, 7>>, -40),
          Double(1, <<4153, 1773, 25151, 51>>, -96)>>,
        <<Double(0, <<1>>, 0), Double(0, <<>>, 0),
          Double(0, <<>>, 0)>>,
        <<Double(0, <<1>>, 0), Double(0, <<>>, 0),
          Double(0, <<>>, 0)>>,
        <<Double(0, <<127>>, -7), Double(0, <<30089, 8234, 64>>, -43),
          Double(1, <<9597, 26215, 25525, 16>>, -95)>>,
        <<Double(0, <<63>>, -6), Double(0, <<12583, 345, 129>>, -43),
          Double(1, <<31721, 1762, 14518, 79>>, -96)>>,
        <<Double(0, <<125>>, -7), Double(0, <<10441, 4682, 97>>, -42),
          Double(1, <<781, 6445, 8378, 53>>, -95)>>,
        <<Double(0, <<31>>, -5), Double(0, <<10141, 2796, 260>>, -43),
          Double(0, <<22355, 14819, 18177, 136>>, -99)>>,
        <<Double(0, <<123>>, -7), Double(0, <<27159, 26286, 40>>, -40),
          Double(1, <<16293, 23919, 2873, 28>>, -94)>>,
        <<Double(0, <<61>>, -6), Double(0, <<21119, 9552, 393>>, -43),
          Double(1, <<9853, 8372, 26199, 203>>, -98)>>,
        <<Double(0, <<121>>, -7), Double(0, <<14199, 23454, 460>>, -43),
          Double(1, <<10247, 4016, 9161, 211>>, -98)>>,
        <<Double(0, <<241>>, -8), Double(0, <<27, 20878, 494>>, -43),
          Double(1, <<15227, 8082, 17657, 240>>, -99)>>,
        <<Double(0, <<239>>, -8), Double(0, <<2611, 29629, 562>>, -43),
          Double(1, <<7835, 11291, 18805, 169>>, -97)>>,
        <<Double(0, <<237>>, -8), Double(0, <<16015, 24410, 631>>, -43),
          Double(0, <<20183, 19382, 8570, 230>>, -97)>>,
        <<Double(0, <<235>>, -8), Double(0, <<27837, 5540, 701>>, -43),
          Double(1, <<3727, 15453, 21004, 113>>, -96)>>,
        <<Double(0, <<117>>, -7), Double(0, <<11179, 1688, 368>>, -42),
          Double(0, <<30361, 10653, 15643, 112>>, -100)>>,
        <<Double(0, <<29>>, -5), Double(0, <<30053, 6898, 403>>, -42),
          Double(0, <<9197, 15037, 8888, 76>>, -96)>>,
        <<Double(0, <<115>>, -7), Double(0, <<28011, 11400, 877>>, -43),
          Double(1, <<26853, 22510, 16896, 156>>, -98)>>,
        <<Double(0, <<229>>, -8), Double(0, <<1777, 17088, 456>>, -42),
          Double(0, <<11475, 3253, 6983, 178>>, -97)>>,
        <<Double(0, <<227>>, -8), Double(0, <<6225, 29592, 984>>, -43),
          Double(1, <<12847, 2814, 14349, 7>>, -92)>>,
        <<Double(0, <<113>>, -7), Double(0, <<20191, 2323, 1021>>, -43),
          Double(1, <<2813, 8002, 21337, 169>>, -97)>>,
        <<Double(0, <<7>>, -3), Double(0, <<4415, 30952, 546>>, -42),
          Double(0, <<1017, 20013, 24305, 71>>, -96)>>,
        <<Double(0, <<223>>, -8), Double(0, <<25151, 17775, 1130>>, -43),
          Double(0, <<9805, 8732, 10126, 57>>, -95)>>,
        <<Double(0, <<221>>, -8), Double(0, <<6413, 17796, 150>>, -40),
          Double(0, <<13473, 5891, 30131, 156>>, -99)>>,
        <<Double(0, <<55>>, -6), Double(0, <<345, 16278, 1241>>, -43),
          Double(0, <<29321, 18070, 16032, 177>>, -103)>>,
        <<Double(0, <<109>>, -7), Double(0, <<13115, 10160, 1316>>, -43),
          Double(0, <<14031, 21823, 16828, 21>>, -94)>>,
        <<Double(0, <<217>>, -8), Double(0, <<18971, 31932, 1353>>, -43),
          Double(0, <<32199, 19154, 20387, 177>>, -97)>>,
        <<Double(0, <<215>>, -8), Double(0, <<26817, 27095, 1429>>, -43),
          Double(0, <<1487, 19215, 26565, 25>>, -95)>>,
        <<Double(0, <<107>>, -7), Double(0, <<14167, 593, 1468>>, -43),
          Double(1, <<8673, 19256, 17975, 168>>, -97)>>,
        <<Double(0, <<213>>, -8), Double(0, <<21573, 12720, 1506>>, -43),
          Double(1, <<17157, 24866, 6209, 227>>, -98)>>,
        <<Double(0, <<211>>, -8), Double(0, <<27449, 32095, 98>>, -39),
          Double(1, <<11473, 21970, 30034, 185>>, -99)>>,
        <<Double(0, <<105>>, -7), Double(0, <<23799, 13493, 101>>, -39),
          Double(0, <<32623, 12609, 18593, 191>>, -99)>>,
        <<Double(0, <<13>>, -4), Double(0, <<25687, 16083, 850>>, -42),
          Double(1, <<8553, 8364, 18701, 195>>, -97)>>,
        <<Double(0, <<207>>, -8), Double(0, <<30141, 15114, 1740>>, -43),
          Double(1, <<28885, 20140, 27418, 112>>, -98)>>,
        <<Double(0, <<103>>, -7), Double(0, <<16863, 2163, 890>>, -42),
          Double(1, <<2395, 22868, 6024, 117>>, -96)>>,
        <<Double(0, <<205>>, -8), Double(0, <<28417, 32632, 1819>>, -43),
          Double(1, <<5609, 17814, 22757, 71>>, -99)>>,
        <<Double(0, <<203>>, -8), Double(0, <<3401, 10166, 1900>>, -43),
          Double(1, <<12341, 28203, 31915, 215>>, -97)>>,
        <<Double(0, <<101>>, -7), Double(0, <<32369, 25055, 1940>>, -43),
          Double(0, <<8003, 27656, 1161, 9>>, -99)>>,
        <<Double(0, <<201>>, -8), Double(0, <<25821, 27483, 123>>, -39),
          Double(1, <<3601, 19319, 1109, 209>>, -103)>>,
        <<Double(0, <<25>>, -5), Double(0, <<19259, 9101, 2022>>, -43),
          Double(0, <<19955, 6465, 29435, 13>>, -94)>>,
        <<Double(0, <<99>>, -7), Double(0, <<2475, 19992, 2104>>, -43),
          Double(0, <<20113, 11738, 29548, 196>>, -100)>>,
        <<Double(0, <<197>>, -8), Double(0, <<15115, 17110, 536>>, -41),
          Double(0, <<27369, 11385, 25132, 184>>, -97)>>,
        <<Double(0, <<49>>, -6), Double(0, <<17661, 25504, 2187>>, -43),
          Double(1, <<31751, 12754, 8462, 56>>, -95)>>,
        <<Double(0, <<195>>, -8), Double(0, <<30111, 22322, 2229>>, -43),
          Double(0, <<5761, 28490, 27447, 220>>, -97)>>,
        <<Double(0, <<97>>, -7), Double(0, <<27469, 26200, 2271>>, -43),
          Double(0, <<15799, 8847, 7093, 229>>, -97)>>,
        <<Double(0, <<193>>, -8), Double(0, <<8663, 4443, 2314>>, -43),
          Double(0, <<23925, 14918, 4029, 106>>, -98)>>,
        <<Double(0, <<191>>, -8), Double(0, <<19913, 24079, 1199>>, -42),
          Double(0, <<317, 9512, 7418, 53>>, -95)>>,
        <<Double(0, <<95>>, -7), Double(0, <<3739, 20254, 610>>, -41),
          Double(1, <<10135, 13512, 28989, 24>>, -94)>>,
        <<Double(0, <<189>>, -8), Double(0, <<27617, 27886, 1242>>, -42),
          Double(0, <<12025, 27708, 14182, 17>>, -95)>>,
        <<Double(0, <<47>>, -6), Double(0, <<29491, 19022, 1264>>, -42),
          Double(0, <<12119, 23299, 15188, 48>>, -96)>>,
        <<Double(0, <<187>>, -8), Double(0, <<31421, 27912, 2572>>, -43),
          Double(0, <<24733, 22817, 4315, 199>>, -99)>>,
        <<Double(0, <<93>>, -7), Double(0, <<20025, 25456, 2616>>, -43),
          Double(1, <<22133, 4815, 7992, 249>>, -97)>>,
        <<Double(0, <<185>>, -8), Double(0, <<24947, 15379, 1330>>, -42),
          Double(1, <<13865, 3461, 8329, 60>>, -95)>>,
        <<Double(0, <<23>>, -5), Double(0, <<14789, 10976, 676>>, -41),
          Double(0, <<18265, 713, 31170, 245>>, -97)>>,
        <<Double(0, <<183>>, -8), Double(0, <<15501, 32490, 1374>>, -42),
          Double(0, <<16623, 23738, 14263, 253>>, -98)>>,
        <<Double(0, <<91>>, -7), Double(0, <<31435, 23517, 698>>, -41),
          Double(1, <<6519, 1106, 2858, 52>>, -97)>>>>]

\* the data of pow's exponential: 128 / ln 2, the shift 1.5 * 2^52 that
\* rounds to a whole number, -ln 2 / 128 in two parts, the coefficients
\* C2..C5 of the polynomial, and for each j < 128 the tail of 2^(j/128) and
\* the double 2^(j/128) (the table holds its bits less j * 2^45, so that
\* adding k * 2^45 gives the bits of 2^(k/128) for k = j mod 128)
exp_data ==
    [invln2N |-> Double(0, <<16767, 25899, 10894, 92>>, -44),
     shift |-> Double(0, <<3>>, 51),
     negln2hiN |-> Double(1, <<32637, 11842, 44>>, -43),
     negln2loN |-> Double(1, <<7581, 15518, 28469, 115>>, -98),
     poly |-> <<
        Double(0, <<32189, 32767, 32767, 255>>, -54),
        Double(0, <<21775, 10922, 21845, 42>>, -53),
        Double(0, <<11153, 7726, 21847, 170>>, -57),
        Double(0, <<20503, 20297, 17477, 136>>, -59)>>,
     tab |-> <<
        <<Double(0, <<>>, 0),
          Double(0, <<1>>, 0)>>,
        <<Double(0, <<24503, 6792, 30366, 108>>, -105),
          Double(0, <<13109, 21494, 22774, 128>>, -52)>>,
        <<Double(1, <<23645, 14769, 78, 139>>, -108),
          Double(0, <<97, 31983, 12904, 129>>, -52)>>,
        <<Double(1, <<26321, 8462, 31208, 130>>, -106),
          Double(0, <<32645, 20700, 3159, 130>>, -52)>>,
        <<Double(0, <<30227, 27343, 18760, 230>>, -107),
          Double(0, <<24925, 27018, 22960, 32>>, -50)>>,
        <<Double(1, <<18301, 9209, 7424, 111>>, -106),
          Double(0, <<31599, 10717, 24790, 65>>, -51)>>,
        <<Double(0, <<18529, 17357, 23865, 135>>, -109),
          Double(0, <<13177, 17949, 17314, 16>>, -49)>>,
        <<Double(0, <<21401, 13927, 3985, 133>>, -106),
          Double(0, <<29571, 5517, 30971, 132>>, -52)>>,
        <<Double(0, <<31597, 15110, 27289, 188>>, -106),
          Double(0, <<2319, 23027, 21857, 133>>, -52)>>,
        <<Double(0, <<31743, 18814, 13594, 61>>, -105),
          Double(0, <<18423, 22244, 12872, 134>>, -52)>>,
        <<Double(0, <<7377, 24671, 30965, 245>>, -112),
          Double(0, <<26833, 13011, 18392, 67>>, -51)>>,
        <<Double(1, <<28171, 4896, 3282, 208>>, -109),
          Double(0, <<21275, 24573, 28058, 135>>, -52)>>,
        <<Double(1, <<24199, 10799, 11428, 85>>, -105),
          Double(0, <<23377, 8228, 19463, 136>>, -52)>>,
        <<Double(1, <<27221, 6301, 958, 132>>, -110),
          Double(0, <<3187, 24630, 10941, 34>>, -50)>>,
        <<Double(1, <<31243, 14805, 4679, 71>>, -105),
          Double(0, <<18799, 10986, 10323, 4>>, -47)>>,
        <<Double(0, <<21935, 21176, 20367, 134>>, -107),
          Double(0, <<3665, 4427, 27235, 138>>, -52)>>,
        <<Double(1, <<12905, 31401, 3466, 16>>, -104),
          Double(0, <<20859, 30970, 19168, 139>>, -52)>>,
        <<Double(1, <<12861, 11196, 32705, 248>>, -107),
          Double(0, <<18165, 14476, 5618, 70>>, -51)>>,
        <<Double(0, <<21439, 32294, 9776, 220>>, -107),
          Double(0, <<19317, 22239, 3439, 141>>, -52)>>,
        <<Double(1, <<30099, 30225, 13112, 91>>, -105),
          Double(0, <<5941, 16898, 15328, 35>>, -50)>>,
        <<Double(0, <<20859, 29667, 23966, 6>>, -101),
          Double(0, <<23765, 12648, 10510, 71>>, -51)>>,
        <<Double(1, <<14493, 5900, 7691, 255>>, -107),
          Double(0, <<22813, 17913, 13632, 143>>, -52)>>,
        <<Double(0, <<17293, 2381, 15621, 211>>, -107),
          Double(0, <<18027, 2146, 3191, 72>>, -51)>>,
        <<Double(0, <<1149, 25032, 26646, 131>>, -107),
          Double(0, <<28235, 4477, 16019, 72>>, -51)>>,
        <<Double(0, <<10789, 29140, 3837, 45>>, -104),
          Double(0, <<11335, 7069, 7229, 18>>, -49)>>,
        <<Double(0, <<18557, 25832, 30819, 186>>, -107),
          Double(0, <<9791, 8037, 18233, 146>>, -52)>>,
        <<Double(0, <<29689, 6175, 3671, 65>>, -106),
          Double(0, <<31965, 19396, 11541, 147>>, -52)>>,
        <<Double(1, <<1071, 16241, 28918, 90>>, -105),
          Double(0, <<25473, 17386, 4991, 148>>, -52)>>,
        <<Double(0, <<11057, 23059, 24453, 151>>, -107),
          Double(0, <<24289, 27199, 31351, 148>>, -52)>>,
        <<Double(1, <<24573, 6767, 17206, 116>>, -111),
          Double(0, <<11673, 31259, 11807, 9>>, -48)>>,
        <<Double(0, <<685, 14598, 14210, 54>>, -105),
          Double(0, <<779, 19912, 18966, 150>>, -52)>>,
        <<Double(0, <<19343, 5021, 21066, 240>>, -109),
          Double(0, <<6059, 10558, 22879, 75>>, -51)>>,
        <<Double(0, <<21979, 19888, 6890, 77>>, -106),
          Double(0, <<14101, 5219, 7160, 152>>, -52)>>,
        <<Double(0, <<7443, 29014, 16897, 44>>, -105),
          Double(0, <<22577, 30873, 1475, 153>>, -52)>>,
        <<Double(0, <<31781, 24019, 14962, 127>>, -106),
          Double(0, <<5887, 25800, 28706, 153>>, -52)>>,
        <<Double(1, <<5825, 7623, 9088, 45>>, -105),
          Double(0, <<8177, 16165, 23317, 154>>, -52)>>,
        <<Double(1, <<27149, 29458, 9590, 18>>, -103),
          Double(0, <<10699, 28277, 18076, 155>>, -52)>>,
        <<Double(1, <<5831, 6993, 4080, 100>>, -105),
          Double(0, <<27699, 27909, 6492, 78>>, -51)>>,
        <<Double(1, <<7017, 16020, 9168, 71>>, -107),
          Double(0, <<8183, 27083, 8044, 157>>, -52)>>,
        <<Double(1, <<6933, 26524, 25702, 200>>, -106),
          Double(0, <<10469, 1575, 3255, 158>>, -52)>>,
        <<Double(0, <<19565, 20052, 32034, 172>>, -107),
          Double(0, <<6673, 19474, 15692, 79>>, -51)>>,
        <<Double(1, <<13509, 31272, 9408, 76>>, -105),
          Double(0, <<8199, 598, 31301, 39>>, -50)>>,
        <<Double(1, <<2395, 4143, 7741, 197>>, -110),
          Double(0, <<5909, 8695, 11284, 80>>, -51)>>,
        <<Double(1, <<6683, 20115, 12909, 225>>, -108),
          Double(0, <<10391, 12961, 18391, 161>>, -52)>>,
        <<Double(0, <<11281, 16773, 4021, 155>>, -111),
          Double(0, <<2349, 16579, 14369, 162>>, -52)>>,
        <<Double(0, <<25839, 30220, 6180, 179>>, -106),
          Double(0, <<87, 23098, 10503, 163>>, -52)>>,
        <<Double(0, <<889, 13634, 13191, 246>>, -109),
          Double(0, <<5069, 22200, 8616, 10>>, -48)>>,
        <<Double(0, <<28963, 18401, 32739, 9>>, -102),
          Double(0, <<27119, 28887, 18005, 82>>, -51)>>,
        <<Double(0, <<11003, 22383, 9267, 11>>, -104),
          Double(0, <<10791, 10860, 32619, 165>>, -52)>>,
        <<Double(0, <<24695, 22185, 30455, 152>>, -106),
          Double(0, <<23821, 13307, 29386, 166>>, -52)>>,
        <<Double(1, <<20935, 113, 10344, 126>>, -106),
          Double(0, <<11431, 27962, 26313, 167>>, -52)>>,
        <<Double(1, <<9033, 14631, 31539, 190>>, -107),
          Double(0, <<13089, 8911, 11701, 84>>, -51)>>,
        <<Double(1, <<14431, 31262, 31514, 198>>, -108),
          Double(0, <<10177, 22173, 26710, 84>>, -51)>>,
        <<Double(1, <<11899, 27771, 9357, 88>>, -106),
          Double(0, <<4623, 5307, 18067, 170>>, -52)>>,
        <<Double(0, <<27591, 6397, 27146, 76>>, -105),
          Double(0, <<5101, 14005, 24206, 85>>, -51)>>,
        <<Double(0, <<6917, 24341, 25308, 220>>, -108),
          Double(0, <<18429, 10543, 13387, 172>>, -52)>>,
        <<Double(0, <<21513, 17464, 3975, 131>>, -106),
          Double(0, <<21545, 14992, 11295, 173>>, -52)>>,
        <<Double(0, <<25461, 20505, 3850, 83>>, -111),
          Double(0, <<18103, 5298, 9370, 174>>, -52)>>,
        <<Double(0, <<16437, 22217, 19352, 161>>, -106),
          Double(0, <<9257, 17771, 29623, 21>>, -49)>>,
        <<Double(1, <<30367, 17202, 4393, 231>>, -107),
          Double(0, <<23561, 29421, 6022, 176>>, -52)>>,
        <<Double(1, <<27061, 20219, 6626, 28>>, -104),
          Double(0, <<21893, 24692, 4602, 177>>, -52)>>,
        <<Double(1, <<29911, 2347, 9969, 81>>, -106),
          Double(0, <<26137, 25420, 18536, 5>>, -47)>>,
        <<Double(1, <<19211, 24085, 26478, 19>>, -103),
          Double(0, <<8741, 1194, 2274, 179>>, -52)>>,
        <<Double(0, <<1625, 16447, 4266, 46>>, -108),
          Double(0, <<10611, 10393, 1367, 180>>, -52)>>,
        <<Double(1, <<17477, 28631, 23031, 19>>, -103),
          Double(0, <<15309, 19710, 633, 181>>, -52)>>,
        <<Double(1, <<23745, 1844, 9563, 104>>, -108),
          Double(0, <<23231, 27159, 73, 182>>, -52)>>,
        <<Double(1, <<21751, 14445, 20447, 77>>, -108),
          Double(0, <<6703, 30922, 32456, 182>>, -52)>>,
        <<Double(1, <<2129, 10689, 28917, 134>>, -107),
          Double(0, <<25889, 31912, 32637, 45>>, -50)>>,
        <<Double(1, <<16079, 31924, 32145, 192>>, -108),
          Double(0, <<6109, 29814, 8053, 46>>, -50)>>,
        <<Double(1, <<14299, 22545, 15250, 11>>, -103),
          Double(0, <<24669, 9298, 16282, 46>>, -50)>>,
        <<Double(1, <<29509, 7765, 12900, 88>>, -106),
          Double(0, <<26569, 11396, 32685, 186>>, -52)>>,
        <<Double(0, <<21715, 15379, 29485, 132>>, -106),
          Double(0, <<23871, 8124, 421, 188>>, -52)>>,
        <<Double(1, <<9501, 29339, 19314, 217>>, -108),
          Double(0, <<391, 26582, 1105, 189>>, -52)>>,
        <<Double(0, <<16491, 10447, 13301, 167>>, -106),
          Double(0, <<24729, 304, 986, 95>>, -51)>>,
        <<Double(0, <<27733, 22444, 12166, 175>>, -109),
          Double(0, <<10033, 14031, 17894, 95>>, -51)>>,
        <<Double(1, <<26529, 12211, 17290, 98>>, -106),
          Double(0, <<3337, 21566, 2126, 96>>, -51)>>,
        <<Double(1, <<19917, 30877, 27062, 38>>, -104),
          Double(0, <<19987, 12953, 5670, 193>>, -52)>>,
        <<Double(1, <<32655, 14873, 15624, 65>>, -106),
          Double(0, <<18349, 3143, 7273, 194>>, -52)>>,
        <<Double(1, <<11191, 22642, 10401, 83>>, -105),
          Double(0, <<4845, 13961, 9062, 195>>, -52)>>,
        <<Double(0, <<1861, 26459, 8538>>, -97),
          Double(0, <<26265, 13076, 11039, 196>>, -52)>>,
        <<Double(0, <<15021, 24824, 14127, 59>>, -105),
          Double(0, <<8411, 1109, 13205, 197>>, -52)>>,
        <<Double(1, <<26623, 14731, 22914, 173>>, -109),
          Double(0, <<20771, 2906, 20274, 49>>, -50)>>,
        <<Double(0, <<22481, 11513, 30339, 55>>, -106),
          Double(0, <<15259, 6421, 25437, 99>>, -51)>>,
        <<Double(1, <<15747, 20028, 9342, 152>>, -106),
          Double(0, <<32739, 2961, 10422, 100>>, -51)>>,
        <<Double(1, <<7721, 5848, 9954, 237>>, -110),
          Double(0, <<17893, 24987, 23774, 201>>, -52)>>,
        <<Double(1, <<14681, 31009, 4069, 225>>, -109),
          Double(0, <<21007, 6032, 26899, 202>>, -52)>>,
        <<Double(1, <<31957, 8948, 1670, 73>>, -105),
          Double(0, <<25829, 21499, 24416, 12>>, -48)>>,
        <<Double(1, <<3659, 11981, 10675, 174>>, -107),
          Double(0, <<989, 28874, 16866, 102>>, -51)>>,
        <<Double(0, <<20007, 22307, 16368, 141>>, -108),
          Double(0, <<16137, 12372, 28964, 12>>, -48)>>,
        <<Double(0, <<29627, 16916, 18647, 238>>, -109),
          Double(0, <<8995, 13254, 8588, 207>>, -52)>>,
        <<Double(1, <<8803, 17604, 5136, 190>>, -107),
          Double(0, <<25957, 30395, 12697, 208>>, -52)>>,
        <<Double(0, <<12757, 18372, 29211, 216>>, -107),
          Double(0, <<11571, 22676, 17007, 209>>, -52)>>,
        <<Double(1, <<15125, 10105, 28487, 141>>, -106),
          Double(0, <<9565, 25724, 21518, 210>>, -52)>>,
        <<Double(0, <<6377, 7406, 6243, 67>>, -105),
          Double(0, <<5739, 1228, 15567, 26>>, -49)>>,
        <<Double(0, <<23219, 23782, 9745, 163>>, -107),
          Double(0, <<32191, 10995, 31149, 212>>, -52)>>,
        <<Double(1, <<10093, 19399, 24525, 37>>, -105),
          Double(0, <<31165, 16339, 1751, 107>>, -51)>>,
        <<Double(0, <<13191, 9622, 27102, 224>>, -107),
          Double(0, <<21421, 12981, 8830, 215>>, -52)>>,
        <<Double(1, <<27901, 19153, 30494, 65>>, -105),
          Double(0, <<23347, 10637, 7182, 108>>, -51)>>,
        <<Double(1, <<22365, 22236, 1970, 87>>, -109),
          Double(0, <<5627, 28830, 20106, 217>>, -52)>>,
        <<Double(1, <<7129, 29165, 2624, 2>>, -100),
          Double(0, <<11421, 3557, 13029, 109>>, -51)>>,
        <<Double(1, <<25805, 7254, 22260, 49>>, -107),
          Double(0, <<24135, 26102, 32219, 219>>, -52)>>,
        <<Double(1, <<2613, 22193, 15241, 143>>, -106),
          Double(0, <<805, 12449, 19296, 110>>, -51)>>,
        <<Double(0, <<24013, 5311, 32604, 167>>, -108),
          Double(0, <<24809, 4171, 6205, 111>>, -51)>>,
        <<Double(1, <<9771, 32073, 15867, 35>>, -104),
          Double(0, <<7689, 14254, 19209, 223>>, -52)>>,
        <<Double(0, <<3251, 24926, 15032, 155>>, -108),
          Double(0, <<21671, 28354, 6555, 56>>, -50)>>,
        <<Double(0, <<32613, 11855, 25394, 61>>, -105),
          Double(0, <<26685, 24575, 342, 113>>, -51)>>,
        <<Double(0, <<22123, 26756, 24719, 41>>, -105),
          Double(0, <<20811, 23727, 8132, 227>>, -52)>>,
        <<Double(0, <<6759, 28828, 14012, 158>>, -109),
          Double(0, <<26549, 10253, 15798, 228>>, -52)>>,
        <<Double(0, <<17197, 6948, 13718, 23>>, -106),
          Double(0, <<4201, 14815, 23683, 229>>, -52)>>,
        <<Double(1, <<23273, 972, 5169, 66>>, -106),
          Double(0, <<25085, 21853, 15894, 115>>, -51)>>,
        <<Double(1, <<31343, 32767, 13684, 253>>, -107),
          Double(0, <<25183, 9475, 1837, 58>>, -50)>>,
        <<Double(1, <<10569, 28907, 14008, 128>>, -106),
          Double(0, <<17657, 2061, 24334, 116>>, -51)>>,
        <<Double(0, <<1959, 19578, 3606, 165>>, -108),
          Double(0, <<9351, 14839, 24675, 234>>, -52)>>,
        <<Double(1, <<8719, 16512, 18040, 148>>, -107),
          Double(0, <<12403, 17842, 16497, 29>>, -49)>>,
        <<Double(0, <<25771, 27360, 23120, 60>>, -105),
          Double(0, <<12933, 1974, 10136, 237>>, -52)>>,
        <<Double(0, <<27467, 22530, 26982, 161>>, -107),
          Double(0, <<3491, 7984, 14948, 7>>, -47)>>,
        <<Double(1, <<15903, 3944, 21636, 150>>, -107),
          Double(0, <<7007, 26359, 29276, 239>>, -52)>>,
        <<Double(1, <<3529, 30350, 10980, 201>>, -107),
          Double(0, <<8489, 10731, 6424, 241>>, -52)>>,
        <<Double(0, <<2259, 16501, 22545, 165>>, -108),
          Double(0, <<8187, 26507, 8285, 121>>, -51)>>,
        <<Double(0, <<29297, 9018, 6065, 158>>, -107),
          Double(0, <<19587, 30606, 26951, 243>>, -52)>>,
        <<Double(1, <<14623, 20986, 32196, 15>>, -103),
          Double(0, <<18541, 8868, 18783, 122>>, -51)>>,
        <<Double(1, <<29821, 17478, 14947, 237>>, -107),
          Double(0, <<26609, 23324, 15648, 246>>, -52)>>,
        <<Double(0, <<17409, 4202, 25054, 30>>, -104),
          Double(0, <<23079, 23746, 26735, 247>>, -52)>>,
        <<Double(0, <<30105, 17321, 22313, 80>>, -106),
          Double(0, <<14999, 28375, 5292, 249>>, -52)>>,
        <<Double(0, <<17143, 12753, 18770, 105>>, -106),
          Double(0, <<14613, 13019, 29959, 3>>, -46)>>,
        <<Double(1, <<25581, 18551, 24299, 241>>, -107),
          Double(0, <<12165, 22222, 31741, 62>>, -50)>>,
        <<Double(0, <<19869, 6947, 9453, 188>>, -108),
          Double(0, <<21019, 24679, 21472, 31>>, -49)>>,
        <<Double(0, <<19593, 705, 5893, 152>>, -110),
          Double(0, <<29169, 22302, 20232, 254>>, -52)>>>>]

\* the 53-bit significand S and the exponent E of x = S * 2^(E - 52) > 0
Significand(x) == BShl(x.man, 53 - BBitLen(x.man))
Exponent(x) == x.exp + BBitLen(x.man) - 1

\* the 52 bits below the top bit of the significand of 0x3fe6955500000000,
\* about 0.7057
OFF == <<0, 0, 21844, 52>>

\* x = 2^k * z with z in [0.7057, 1.4114): tmp = ix - OFF on the bits ix of
\* x; top is whether the fraction of x reaches that of OFF, k = tmp >> 52,
\* i is the top 7 bits of the fraction of tmp, and z has the bits
\* ix - (tmp & 0xfff << 52)
LogTop(x) == BCmp(BSub(Significand(x), <<0, 0, 0, 128>>), OFF) >= 0
LogK(x) == IF LogTop(x) THEN Exponent(x) + 1 ELSE Exponent(x)
LogI(x) ==
    LET i == BShr(BSub(Significand(x), IF LogTop(x) THEN <<0, 0, 21844, 180>> ELSE OFF),
                  45)
    IN  IF i = <<>> THEN 0 ELSE i[1]

\* log_inline: log(x) = k * ln 2 + log(c) + log1p(z / c - 1), as <<y, tail>>
\* with y the double nearest to it and tail what is left
LogY(hi, lo, y) == <<y, FAdd(FSub(hi, y), lo)>>

LogLo(hi, lo) == LogY(hi, lo, FAdd(hi, lo))

LogPoly(r, ar2) ==
    FFma(ar2,
         FFma(FFma(r, pow_log_data.poly[7], pow_log_data.poly[6]), ar2,
              FFma(r, pow_log_data.poly[5], pow_log_data.poly[4])),
         FFma(r, pow_log_data.poly[3], pow_log_data.poly[2]))

\* lo = lo1 + lo2 + lo3 + lo4 + ar3 * p, with lo4 = t2 - hi + ar2
LogHi(r, ar2, t2, lo123, hi) ==
    LogLo(hi, FFma(FMul(r, ar2), LogPoly(r, ar2),
                   FAdd(lo123, FAdd(FSub(t2, hi), ar2))))

\* hi = t2 + ar2 and lo3 = fma(ar, r, -ar2)
LogAr(r, ar, t2, lo12, ar2) ==
    LogHi(r, ar2, t2, FAdd(lo12, FFma(ar, r, FNeg(ar2))), FAdd(t2, ar2))

\* lo2 = t1 - t2 + r and ar2 = r * ar
LogT(r, t1, lo1, t2, ar) ==
    LogAr(r, ar, t2, FAdd(lo1, FAdd(FSub(t1, t2), r)), FMul(r, ar))

\* t2 = t1 + r and ar = A[0] * r
LogR(r, t1, lo1) == LogT(r, t1, lo1, FAdd(t1, r), FMul(pow_log_data.poly[1], r))

\* r = fma(z, invc, -1.0), t1 = kd * Ln2hi + logc, lo1 = kd * Ln2lo + logctail
LogZ(z, kd, T) ==
    LogR(FFma(z, T[1], Float(-1)),
         FFma(kd, pow_log_data.ln2hi, T[2]),
         FFma(kd, pow_log_data.ln2lo, T[3]))

log_inline(x) ==
    LogZ([x EXCEPT !.exp = @ - LogK(x)], Float(LogK(x)), pow_log_data.tab[LogI(x) + 1])

\* the whole number a float of less than 31 bits is
IntOf(a) ==
    (1 - 2 * a.sign) * (Dig(Whole(a), 1) + Dig(Whole(a), 2) * Base
                          + Dig(Whole(a), 3) * Base * Base)

\* 2^(k/128) as a double, the scale, times 2^e
Scale(k, e) == [exp_data.tab[(k % 128) + 1][2] EXCEPT !.exp = @ + (k \div 128) + e]

\* the result in the subnormal range: y = scale + scale * tmp is rounded
\* to the result's precision before it is scaled down
SpecialLo(one, y, lo, hi) == FSub(FAdd(FAdd(FAdd(FSub(one, hi), y), lo), hi), one)

SpecialOne(s, st, y, one) ==
    SpecialLo(one, y, FAdd(FSub(s, y), st), FAdd(y, one))

SpecialY(s, st, y) ==
    FMul(Double(0, <<1>>, -1022),
         IF Lt(FAbs(y), Float(1))
         THEN SpecialOne(s, st, y, IF Lt(y, Zero) THEN Float(-1) ELSE Float(1))
         ELSE y)

SpecialSt(s, st) == SpecialY(s, st, FAdd(s, st))

\* specialcase: the scale is out of range by itself; k >= 0 when the result
\* is large, and then the scale is taken 2^1009 times smaller, and else
\* 2^1022 times larger
specialcase(tmp, k) ==
    IF k >= 0
    THEN FMul(Double(0, <<1>>, 1009), FFma(Scale(k, -1009), tmp, Scale(k, -1009)))
    ELSE SpecialSt(Scale(k, 1022), FMul(tmp, Scale(k, 1022)))

\* exp_inline: exp(x + xtail) = 2^(k/128) * exp(r) with k the whole number
\* nearest to x * 128 / ln 2 and r = x - k * ln 2 / 128 + xtail
ExpTmp(x, k, tmp) ==
    IF Exponent(x) >= 9 THEN specialcase(tmp, k)
    ELSE FFma(tmp, Scale(k, 0), Scale(k, 0))

\* tmp = tail + r + r2 * (C2 + r * C3) + r2 * r2 * (C4 + r * C5)
ExpR2(x, k, r, r2) ==
    ExpTmp(x, k,
           FFma(FFma(r, exp_data.poly[4], exp_data.poly[3]), FMul(r2, r2),
                FFma(FFma(r, exp_data.poly[2], exp_data.poly[1]), r2,
                     FAdd(r, exp_data.tab[(k % 128) + 1][1]))))

ExpR(x, k, r) == ExpR2(x, k, r, FMul(r, r))

\* r = x + kd * NegLn2hiN + kd * NegLn2loN, then r += xtail
ExpK(x, xtail, kd) ==
    ExpR(x, IntOf(kd),
         FAdd(xtail, FFma(kd, exp_data.negln2loN, FFma(kd, exp_data.negln2hiN, x))))

\* below 2^-54 the result is 1 + x; from 1024 it is out of range, 0 or
\* infinite; from 512 the scale is; kd is fma(x, InvLn2N, Shift) - Shift
exp_inline(x, xtail) ==
    IF IsZero(x) \/ Exponent(x) < -54 THEN FAdd(Float(1), x)
    ELSE IF Exponent(x) >= 10 THEN (IF x.sign = 1 THEN Zero ELSE Inf(0))
    ELSE ExpK(x, xtail, FSub(FFma(x, exp_data.invln2N, exp_data.shift), exp_data.shift))

\* ehi = y * hi and elo = y * lo + fma(y, hi, -ehi), for y = 2.0
PowE(hi, lo, ehi) == exp_inline(ehi, FFma(Float(2), lo, FFma(Float(2), hi, FNeg(ehi))))

PowLog(l) == PowE(l[1], l[2], FMul(Float(2), l[1]))

\* C's pow(x, 2.0) for a finite x > 0
pow(x) == PowLog(log_inline(x))

\* a ** 2: exact for an int.  For a float, CPython's float_pow: a NaN, an
\* infinity, a zero and 1.0 have their results without pow, a negative base
\* gives pow of its absolute value, and an infinite result of pow is a range
\* error
Sq(a) ==
    IF Raised(a) THEN a
    ELSE IF a.kind = "int" THEN Mul(a, a)
    ELSE IF a.fp # "fin" \/ IsZero(a) THEN FMul(a, a)
    ELSE IF FAbs(a) = Float(1) THEN Float(1)
    ELSE OrOverflow(pow(FAbs(a)), "(34, 'Numerical result out of range')")

\* ------------------------------------------------------- unit conversion
SQ_IN_PER_SQ_FT == 144

\* a tuple, a list and a dict (a function from its keys), as values
Tuple(items) == [kind |-> "tuple", items |-> items]
List(items) == [kind |-> "list", items |-> items]
Dict(items) == [kind |-> "dict", items |-> items]

\* a str, the sequence of its code points: "back" is Str(<<98, 97, 99, 107>>)
Str(chars) == [kind |-> "str", chars |-> chars]

\* the pair returned, or the exception that computing a part raised
FtIn(sq_ft, rem_in) ==
    IF Raised(sq_ft) THEN sq_ft
    ELSE IF Raised(rem_in) THEN rem_in
    ELSE Tuple(<<sq_ft, rem_in>>)

\* variant: the quotient truncated toward zero instead of floored
convert_sq_in_to_ft_in_trunc(square_inches) ==
    FtIn(int(Div(square_inches, Num(SQ_IN_PER_SQ_FT))),
         Sub(square_inches,
             Mul(int(Div(square_inches, Num(SQ_IN_PER_SQ_FT))), Num(SQ_IN_PER_SQ_FT))))

\* sq_ft = int(square_inches // 144), rem_in = square_inches % 144
convert_sq_in_to_ft_in(square_inches) ==
    FtIn(int(FloorDiv(square_inches, Num(SQ_IN_PER_SQ_FT))),
         Mod(square_inches, Num(SQ_IN_PER_SQ_FT)))

\* variant: the panel count rounded down instead of up
panels_needed_for_area_sq_in_floor(total_area_sq_in, panel_sq_ft, waste_pct) ==
    IF Raised(total_area_sq_in) THEN total_area_sq_in
    ELSE IF Le(panel_sq_ft, Num(0))
    THEN Raise("ValueError", "panel_sq_ft must be > 0")
    ELSE int(FloorDiv(Mul(Div(max(Float(0), total_area_sq_in), Num(SQ_IN_PER_SQ_FT)),
                          Add(Float(1), waste_pct)),
                      panel_sq_ft))

\* total_sq_ft = max(0.0, area) / 144, times 1.0 + waste_pct; the count is
\* math.ceil(total_sq_ft / panel_sq_ft)
panels_needed_for_area_sq_in(total_area_sq_in, panel_sq_ft, waste_pct) ==
    IF Raised(total_area_sq_in) THEN total_area_sq_in
    ELSE IF Le(panel_sq_ft, Num(0))
    THEN Raise("ValueError", "panel_sq_ft must be > 0")
    ELSE ceil(Div(Mul(Div(max(Float(0), total_area_sq_in), Num(SQ_IN_PER_SQ_FT)),
                      Add(Float(1), waste_pct)),
                  panel_sq_ft))

\* ------------------------------------------------------------- sections
\* Opening.__init__ and RectSection.__init__ keep the dimensions as given
Opening(width_in, height_in) ==
    [kind |-> "Opening", width_in |-> width_in, height_in |-> height_in]

RectSection(width_in, height_in) ==
    [kind |-> "RectSection", width_in |-> width_in, height_in |-> height_in]

\* TriSection.__init__: the constructed object, with its dimensions made
\* floats, or the exception raised
TriSection(base_in, pitch_rise, pitch_run) ==
    IF Raised(base_in) THEN base_in
    ELSE IF Lt(base_in, Num(0))
    THEN Raise("ValueError", "base_in must be >= 0")
    ELSE IF Raised(float(base_in)) THEN float(base_in)
    ELSE IF Raised(float(pitch_rise)) THEN float(pitch_rise)
    ELSE IF Raised(float(pitch_run)) THEN float(pitch_run)
    ELSE [kind |-> "TriSection", base_in |-> float(base_in),
          pitch_rise |-> float(pitch_rise), pitch_run |-> float(pitch_run)]

\* TriSection.pitch: a run of 0 raises ZeroDivisionError
pitch(self) == Div(self.pitch_rise, self.pitch_run)

\* area_sq_in of an Opening, a RectSection or a TriSection; the triangle's
\* is 0.5 * base_in * h with h = (base_in / 2.0) * pitch
area_sq_in(self) ==
    IF self.kind = "TriSection"
    THEN Mul(Mul(Half, self.base_in), Mul(Div(self.base_in, Float(2)), pitch(self)))
    ELSE Mul(self.width_in, self.height_in)

PitchError == Raise("ValueError", "Pitches must match to subtract as a single triangle.")
BaseError == Raise("ValueError", "Inner base must be <= outer base.")

\* variant: the bases subtracted instead of their squares
equivalent_difference_linear(self, inner) ==
    IF Raised(pitch(self)) THEN pitch(self)
    ELSE IF Raised(pitch(inner)) THEN pitch(inner)
    ELSE IF ~isclose(pitch(self), pitch(inner)) THEN PitchError
    ELSE IF Gt(inner.base_in, self.base_in) THEN BaseError
    ELSE TriSection(Sub(self.base_in, inner.base_in),
                    self.pitch_rise, self.pitch_run)

\* TriSection.equivalent_difference; self.pitch and inner.pitch are
\* evaluated, in this order, before anything is compared
equivalent_difference(self, inner) ==
    IF Raised(pitch(self)) THEN pitch(self)
    ELSE IF Raised(pitch(inner)) THEN pitch(inner)
    ELSE IF ~isclose(pitch(self), pitch(inner)) THEN PitchError
    ELSE IF Gt(inner.base_in, self.base_in) THEN BaseError
    ELSE TriSection(sqrt(Sub(Sq(self.base_in), Sq(inner.base_in))),
                    self.pitch_rise, self.pitch_run)

__sub__(self, other) == equivalent_difference(self, other)

\* ----------------------------------------------------------------- Wall
\* Wall.__init__
Wall == [sections |-> <<>>, openings |-> <<>>]

add_section(self, section) == [self EXCEPT !.sections = Append(@, section)]

add_opening(self, opening) == [self EXCEPT !.openings = Append(@, opening)]

\* sum(x.area_sq_in() for x in items): a left fold of + from the int 0
RECURSIVE SumAreas(_)
SumAreas(items) ==
    IF items = <<>> THEN Num(0)
    ELSE Add(SumAreas(SubSeq(items, 1, Len(items) - 1)),
             area_sq_in(items[Len(items)]))

section_area_sq_in(self) == SumAreas(self.sections)

opening_area_sq_in(self) == SumAreas(self.openings)

\* variant: the wall's own area clamped at 0
Wall_siding_area_sq_in_clamped(self) ==
    max(Float(0), Sub(section_area_sq_in(self), opening_area_sq_in(self)))

Wall_siding_area_sq_in(self) ==
    Sub(section_area_sq_in(self), opening_area_sq_in(self))

siding_area_ft_in(self) == convert_sq_in_to_ft_in(Wall_siding_area_sq_in(self))

panels_needed(self, panel_sq_ft, waste_pct) ==
    panels_needed_for_area_sq_in(Wall_siding_area_sq_in(self), panel_sq_ft, waste_pct)

\* ----------------------------------------------------------- directions
\* str.isspace() of a character: the white space that strip() removes
isspace(c) ==
    \/ c \in 9..13 \/ c \in 28..32 \/ c \in {133, 160, 5760}
    \/ c \in 8192..8202 \/ c \in {8232, 8233, 8239, 8287, 12288}

\* s without the white space at its two ends
RECURSIVE Stripped(_)
Stripped(s) ==
    IF s = <<>> THEN s
    ELSE IF isspace(s[1]) THEN Stripped(SubSeq(s, 2, Len(s)))
    ELSE IF isspace(s[Len(s)]) THEN Stripped(SubSeq(s, 1, Len(s) - 1))
    ELSE s

\* str.strip()
strip(self) == Str(Stripped(self.chars))

\* The characters above the ASCII ones that have a lower case of their own,
\* as <<first, last, step, offset>>: every step-th character from first to
\* last has the lower case offset places on.
ToLower == {
    <<192, 214, 1, 32>>, <<216, 222, 1, 32>>, <<256, 302, 2, 1>>,
    <<306, 310, 2, 1>>, <<313, 327, 2, 1>>, <<330, 374, 2, 1>>,
    <<376, 376, 1, -121>>, <<377, 381, 2, 1>>, <<385, 385, 1, 210>>,
    <<386, 388, 2, 1>>, <<390, 390, 1, 206>>, <<391, 391, 1, 1>>,
    <<393, 394, 1, 205>>, <<395, 395, 1, 1>>, <<398, 398, 1, 79>>,
    <<399, 399, 1, 202>>, <<400, 400, 1, 203>>, <<401, 401, 1, 1>>,
    <<403, 403, 1, 205>>, <<404, 404, 1, 207>>, <<406, 406, 1, 211>>,
    <<407, 407, 1, 209>>, <<408, 408, 1, 1>>, <<412, 412, 1, 211>>,
    <<413, 413, 1, 213>>, <<415, 415, 1, 214>>, <<416, 420, 2, 1>>,
    <<422, 422, 1, 218>>, <<423, 423, 1, 1>>, <<425, 425, 1, 218>>,
    <<428, 428, 1, 1>>, <<430, 430, 1, 218>>, <<431, 431, 1, 1>>,
    <<433, 434, 1, 217>>, <<435, 437, 2, 1>>, <<439, 439, 1, 219>>,
    <<440, 440, 1, 1>>, <<444, 444, 1, 1>>, <<452, 452, 1, 2>>,
    <<453, 453, 1, 1>>, <<455, 455, 1, 2>>, <<456, 456, 1, 1>>,
    <<458, 458, 1, 2>>, <<459, 475, 2, 1>>, <<478, 494, 2, 1>>,
    <<497, 497, 1, 2>>, <<498, 500, 2, 1>>, <<502, 502, 1, -97>>,
    <<503, 503, 1, -56>>, <<504, 542, 2, 1>>, <<544, 544, 1, -130>>,
    <<546, 562, 2, 1>>, <<570, 570, 1, 10795>>, <<571, 571, 1, 1>>,
    <<573, 573, 1, -163>>, <<574, 574, 1, 10792>>, <<577, 577, 1, 1>>,
    <<579, 579, 1, -195>>, <<580, 580, 1, 69>>, <<581, 581, 1, 71>>,
    <<582, 590, 2, 1>>, <<880, 882, 2, 1>>, <<886, 886, 1, 1>>,
    <<895, 895, 1, 116>>, <<902, 902, 1, 38>>, <<904, 906, 1, 37>>,
    <<908, 908, 1, 64>>, <<910, 911, 1, 63>>, <<913, 929, 1, 32>>,
    <<932, 939, 1, 32>>, <<975, 975, 1, 8>>, <<984, 1006, 2, 1>>,
    <<1012, 1012, 1, -60>>, <<1015, 1015, 1, 1>>, <<1017, 1017, 1, -7>>,
    <<1018, 1018, 1, 1>>, <<1021, 1023, 1, -130>>, <<1024, 1039, 1, 80>>,
    <<1040, 1071, 1, 32>>, <<1120, 1152, 2, 1>>, <<1162, 1214, 2, 1>>,
    <<1216, 1216, 1, 15>>, <<1217, 1229, 2, 1>>, <<1232, 1326, 2, 1>>,
    <<1329, 1366, 1, 48>>, <<4256, 4293, 1, 7264>>, <<4295, 4295, 1, 7264>>,
    <<4301, 4301, 1, 7264>>, <<5024, 5103, 1, 38864>>, <<5104, 5109, 1, 8>>,
    <<7312, 7354, 1, -3008>>, <<7357, 7359, 1, -3008>>, <<7680, 7828, 2, 1>>,
    <<7838, 7838, 1, -7615>>, <<7840, 7934, 2, 1>>, <<7944, 7951, 1, -8>>,
    <<7960, 7965, 1, -8>>, <<7976, 7983, 1, -8>>, <<7992, 7999, 1, -8>>,
    <<8008, 8013, 1, -8>>, <<8025, 8031, 2, -8>>, <<8040, 8047, 1, -8>>,
    <<8072, 8079, 1, -8>>, <<8088, 8095, 1, -8>>, <<8104, 8111, 1, -8>>,
    <<8120, 8121, 1, -8>>, <<8122, 8123, 1, -74>>, <<8124, 8124, 1, -9>>,
    <<8136, 8139, 1, -86>>, <<8140, 8140, 1, -9>>, <<8152, 8153, 1, -8>>,
    <<8154, 8155, 1, -100>>, <<8168, 8169, 1, -8>>, <<8170, 8171, 1, -112>>,
    <<8172, 8172, 1, -7>>, <<8184, 8185, 1, -128>>, <<8186, 8187, 1, -126>>,
    <<8188, 8188, 1, -9>>, <<8486, 8486, 1, -7517>>, <<8490, 8490, 1, -8383>>,
    <<8491, 8491, 1, -8262>>, <<8498, 8498, 1, 28>>, <<8544, 8559, 1, 16>>,
    <<8579, 8579, 1, 1>>, <<9398, 9423, 1, 26>>, <<11264, 11311, 1, 48>>,
    <<11360, 11360, 1, 1>>, <<11362, 11362, 1, -10743>>,
    <<11363, 11363, 1, -3814>>, <<11364, 11364, 1, -10727>>,
    <<11367, 11371, 2, 1>>, <<11373, 11373, 1, -10780>>,
    <<11374, 11374, 1, -10749>>, <<11375, 11375, 1, -10783>>,
    <<11376, 11376, 1, -10782>>, <<11378, 11378, 1, 1>>,
    <<11381, 11381, 1, 1>>, <<11390, 11391, 1, -10815>>,
    <<11392, 11490, 2, 1>>, <<11499, 11501, 2, 1>>, <<11506, 11506, 1, 1>>,
    <<42560, 42604, 2, 1>>, <<42624, 42650, 2, 1>>, <<42786, 42798, 2, 1>>,
    <<42802, 42862, 2, 1>>, <<42873, 42875, 2, 1>>,
    <<42877, 42877, 1, -35332>>, <<42878, 42886, 2, 1>>,
    <<42891, 42891, 1, 1>>, <<42893, 42893, 1, -42280>>,
    <<42896, 42898, 2, 1>>, <<42902, 42920, 2, 1>>,
    <<42922, 42922, 1, -42308>>, <<42923, 42923, 1, -42319>>,
    <<42924, 42924, 1, -42315>>, <<42925, 42925, 1, -42305>>,
    <<42926, 42926, 1, -42308>>, <<42928, 42928, 1, -42258>>,
    <<42929, 42929, 1, -42282>>, <<42930, 42930, 1, -42261>>,
    <<42931, 42931, 1, 928>>, <<42932, 42946, 2, 1>>,
    <<42948, 42948, 1, -48>>, <<42949, 42949, 1, -42307>>,
    <<42950, 42950, 1, -35384>>, <<42951, 42953, 2, 1>>,
    <<42960, 42960, 1, 1>>, <<42966, 42968, 2, 1>>, <<42997, 42997, 1, 1>>,
    <<65313, 65338, 1, 32>>, <<66560, 66599, 1, 40>>, <<66736, 66771, 1, 40>>,
    <<66928, 66964, 2, 39>>, <<66929, 66937, 2, 39>>, <<66941, 66953, 2, 39>>,
    <<66957, 66961, 2, 39>>, <<66965, 66965, 1, 39>>, <<68736, 68786, 1, 64>>,
    <<71840, 71871, 1, 32>>, <<93760, 93791, 1, 32>>,
    <<125184, 125217, 1, 34>>}

\* The characters str.lower() looks through around a capital sigma (the
\* case-ignorable ones) and, of the others, the cased ones, as <<first, last>>.
CaseIgnorable == {
    <<39, 39>>, <<46, 46>>, <<58, 58>>, <<94, 94>>, <<96, 96>>, <<168, 168>>,
    <<173, 173>>, <<175, 175>>, <<180, 180>>, <<183, 184>>, <<688, 879>>,
    <<884, 885>>, <<890, 890>>, <<900, 901>>, <<903, 903>>, <<1155, 1161>>,
    <<1369, 1369>>, <<1375, 1375>>, <<1425, 1469>>, <<1471, 1471>>,
    <<1473, 1474>>, <<1476, 1477>>, <<1479, 1479>>, <<1524, 1524>>,
    <<1536, 1541>>, <<1552, 1562>>, <<1564, 1564>>, <<1600, 1600>>,
    <<1611, 1631>>, <<1648, 1648>>, <<1750, 1757>>, <<1759, 1768>>,
    <<1770, 1773>>, <<1807, 1807>>, <<1809, 1809>>, <<1840, 1866>>,
    <<1958, 1968>>, <<2027, 2037>>, <<2042, 2042>>, <<2045, 2045>>,
    <<2070, 2093>>, <<2137, 2139>>, <<2184, 2184>>, <<2192, 2193>>,
    <<2200, 2207>>, <<2249, 2306>>, <<2362, 2362>>, <<2364, 2364>>,
    <<2369, 2376>>, <<2381, 2381>>, <<2385, 2391>>, <<2402, 2403>>,
    <<2417, 2417>>, <<2433, 2433>>, <<2492, 2492>>, <<2497, 2500>>,
    <<2509, 2509>>, <<2530, 2531>>, <<2558, 2558>>, <<2561, 2562>>,
    <<2620, 2620>>, <<2625, 2626>>, <<2631, 2632>>, <<2635, 2637>>,
    <<2641, 2641>>, <<2672, 2673>>, <<2677, 2677>>, <<2689, 2690>>,
    <<2748, 2748>>, <<2753, 2757>>, <<2759, 2760>>, <<2765, 2765>>,
    <<2786, 2787>>, <<2810, 2815>>, <<2817, 2817>>, <<2876, 2876>>,
    <<2879, 2879>>, <<2881, 2884>>, <<2893, 2893>>, <<2901, 2902>>,
    <<2914, 2915>>, <<2946, 2946>>, <<3008, 3008>>, <<3021, 3021>>,
    <<3072, 3072>>, <<3076, 3076>>, <<3132, 3132>>, <<3134, 3136>>,
    <<3142, 3144>>, <<3146, 3149>>, <<3157, 3158>>, <<3170, 3171>>,
    <<3201, 3201>>, <<3260, 3260>>, <<3263, 3263>>, <<3270, 3270>>,
    <<3276, 3277>>, <<3298, 3299>>, <<3328, 3329>>, <<3387, 3388>>,
    <<3393, 3396>>, <<3405, 3405>>, <<3426, 3427>>, <<3457, 3457>>,
    <<3530, 3530>>, <<3538, 3540>>, <<3542, 3542>>, <<3633, 3633>>,
    <<3636, 3642>>, <<3654, 3662>>, <<3761, 3761>>, <<3764, 3772>>,
    <<3782, 3782>>, <<3784, 3789>>, <<3864, 3865>>, <<3893, 3893>>,
    <<3895, 3895>>, <<3897, 3897>>, <<3953, 3966>>, <<3968, 3972>>,
    <<3974, 3975>>, <<3981, 3991>>, <<3993, 4028>>, <<4038, 4038>>,
    <<4141, 4144>>, <<4146, 4151>>, <<4153, 4154>>, <<4157, 4158>>,
    <<4184, 4185>>, <<4190, 4192>>, <<4209, 4212>>, <<4226, 4226>>,
    <<4229, 4230>>, <<4237, 4237>>, <<4253, 4253>>, <<4348, 4348>>,
    <<4957, 4959>>, <<5906, 5908>>, <<5938, 5939>>, <<5970, 5971>>,
    <<6002, 6003>>, <<6068, 6069>>, <<6071, 6077>>, <<6086, 6086>>,
    <<6089, 6099>>, <<6103, 6103>>, <<6109, 6109>>, <<6155, 6159>>,
    <<6211, 6211>>, <<6277, 6278>>, <<6313, 6313>>, <<6432, 6434>>,
    <<6439, 6440>>, <<6450, 6450>>, <<6457, 6459>>, <<6679, 6680>>,
    <<6683, 6683>>, <<6742, 6742>>, <<6744, 6750>>, <<6752, 6752>>,
    <<6754, 6754>>, <<6757, 6764>>, <<6771, 6780>>, <<6783, 6783>>,
    <<6823, 6823>>, <<6832, 6862>>, <<6912, 6915>>, <<6964, 6964>>,
    <<6966, 6970>>, <<6972, 6972>>, <<6978, 6978>>, <<7019, 7027>>,
    <<7040, 7041>>, <<7074, 7077>>, <<7080, 7081>>, <<7083, 7085>>,
    <<7142, 7142>>, <<7144, 7145>>, <<7149, 7149>>, <<7151, 7153>>,
    <<7212, 7219>>, <<7222, 7223>>, <<7288, 7293>>, <<7376, 7378>>,
    <<7380, 7392>>, <<7394, 7400>>, <<7405, 7405>>, <<7412, 7412>>,
    <<7416, 7417>>, <<7468, 7530>>, <<7544, 7544>>, <<7579, 7679>>,
    <<8125, 8125>>, <<8127, 8129>>, <<8141, 8143>>, <<8157, 8159>>,
    <<8173, 8175>>, <<8189, 8190>>, <<8203, 8207>>, <<8216, 8217>>,
    <<8228, 8228>>, <<8231, 8231>>, <<8234, 8238>>, <<8288, 8292>>,
    <<8294, 8303>>, <<8305, 8305>>, <<8319, 8319>>, <<8336, 8348>>,
    <<8400, 8432>>, <<11388, 11389>>, <<11503, 11505>>, <<11631, 11631>>,
    <<11647, 11647>>, <<11744, 11775>>, <<11823, 11823>>, <<12293, 12293>>,
    <<12330, 12333>>, <<12337, 12341>>, <<12347, 12347>>, <<12441, 12446>>,
    <<12540, 12542>>, <<40981, 40981>>, <<42232, 42237>>, <<42508, 42508>>,
    <<42607, 42610>>, <<42612, 42621>>, <<42623, 42623>>, <<42652, 42655>>,
    <<42736, 42737>>, <<42752, 42785>>, <<42864, 42864>>, <<42888, 42890>>,
    <<42994, 42996>>, <<43000, 43001>>, <<43010, 43010>>, <<43014, 43014>>,
    <<43019, 43019>>, <<43045, 43046>>, <<43052, 43052>>, <<43204, 43205>>,
    <<43232, 43249>>, <<43263, 43263>>, <<43302, 43309>>, <<43335, 43345>>,
    <<43392, 43394>>, <<43443, 43443>>, <<43446, 43449>>, <<43452, 43453>>,
    <<43471, 43471>>, <<43493, 43494>>, <<43561, 43566>>, <<43569, 43570>>,
    <<43573, 43574>>, <<43587, 43587>>, <<43596, 43596>>, <<43632, 43632>>,
    <<43644, 43644>>, <<43696, 43696>>, <<43698, 43700>>, <<43703, 43704>>,
    <<43710, 43711>>, <<43713, 43713>>, <<43741, 43741>>, <<43756, 43757>>,
    <<43763, 43764>>, <<43766, 43766>>, <<43867, 43871>>, <<43881, 43883>>,
    <<44005, 44005>>, <<44008, 44008>>, <<44013, 44013>>, <<64286, 64286>>,
    <<64434, 64450>>, <<65024, 65039>>, <<65043, 65043>>, <<65056, 65071>>,
    <<65106, 65106>>, <<65109, 65109>>, <<65279, 65279>>, <<65287, 65287>>,
    <<65294, 65294>>, <<65306, 65306>>, <<65342, 65342>>, <<65344, 65344>>,
    <<65392, 65392>>, <<65438, 65439>>, <<65507, 65507>>, <<65529, 65531>>,
    <<66045, 66045>>, <<66272, 66272>>, <<66422, 66426>>, <<67456, 67461>>,
    <<67463, 67504>>, <<67506, 67514>>, <<68097, 68099>>, <<68101, 68102>>,
    <<68108, 68111>>, <<68152, 68154>>, <<68159, 68159>>, <<68325, 68326>>,
    <<68900, 68903>>, <<69291, 69292>>, <<69446, 69456>>, <<69506, 69509>>,
    <<69633, 69633>>, <<69688, 69702>>, <<69744, 69744>>, <<69747, 69748>>,
    <<69759, 69761>>, <<69811, 69814>>, <<69817, 69818>>, <<69821, 69821>>,
    <<69826, 69826>>, <<69837, 69837>>, <<69888, 69890>>, <<69927, 69931>>,
    <<69933, 69940>>, <<70003, 70003>>, <<70016, 70017>>, <<70070, 70078>>,
    <<70089, 70092>>, <<70095, 70095>>, <<70191, 70193>>, <<70196, 70196>>,
    <<70198, 70199>>, <<70206, 70206>>, <<70367, 70367>>, <<70371, 70378>>,
    <<70400, 70401>>, <<70459, 70460>>, <<70464, 70464>>, <<70502, 70508>>,
    <<70512, 70516>>, <<70712, 70719>>, <<70722, 70724>>, <<70726, 70726>>,
    <<70750, 70750>>, <<70835, 70840>>, <<70842, 70842>>, <<70847, 70848>>,
    <<70850, 70851>>, <<71090, 71093>>, <<71100, 71101>>, <<71103, 71104>>,
    <<71132, 71133>>, <<71219, 71226>>, <<71229, 71229>>, <<71231, 71232>>,
    <<71339, 71339>>, <<71341, 71341>>, <<71344, 71349>>, <<71351, 71351>>,
    <<71453, 71455>>, <<71458, 71461>>, <<71463, 71467>>, <<71727, 71735>>,
    <<71737, 71738>>, <<71995, 71996>>, <<71998, 71998>>, <<72003, 72003>>,
    <<72148, 72151>>, <<72154, 72155>>, <<72160, 72160>>, <<72193, 72202>>,
    <<72243, 72248>>, <<72251, 72254>>, <<72263, 72263>>, <<72273, 72278>>,
    <<72281, 72283>>, <<72330, 72342>>, <<72344, 72345>>, <<72752, 72758>>,
    <<72760, 72765>>, <<72767, 72767>>, <<72850, 72871>>, <<72874, 72880>>,
    <<72882, 72883>>, <<72885, 72886>>, <<73009, 73014>>, <<73018, 73018>>,
    <<73020, 73021>>, <<73023, 73029>>, <<73031, 73031>>, <<73104, 73105>>,
    <<73109, 73109>>, <<73111, 73111>>, <<73459, 73460>>, <<78896, 78904>>,
    <<92912, 92916>>, <<92976, 92982>>, <<92992, 92995>>, <<94031, 94031>>,
    <<94095, 94111>>, <<94176, 94177>>, <<94179, 94180>>, <<110576, 110579>>,
    <<110581, 110587>>, <<110589, 110590>>, <<113821, 113822>>,
    <<113824, 113827>>, <<118528, 118573>>, <<118576, 118598>>,
    <<119143, 119145>>, <<119155, 119170>>, <<119173, 119179>>,
    <<119210, 119213>>, <<119362, 119364>>, <<121344, 121398>>,
    <<121403, 121452>>, <<121461, 121461>>, <<121476, 121476>>,
    <<121499, 121503>>, <<121505, 121519>>, <<122880, 122886>>,
    <<122888, 122904>>, <<122907, 122913>>, <<122915, 122916>>,
    <<122918, 122922>>, <<123184, 123197>>, <<123566, 123566>>,
    <<123628, 123631>>, <<125136, 125142>>, <<125252, 125259>>,
    <<127995, 127999>>, <<917505, 917505>>, <<917536, 917631>>,
    <<917760, 917999>>}

Cased == {
    <<65, 90>>, <<97, 122>>, <<170, 170>>, <<181, 181>>, <<186, 186>>,
    <<192, 214>>, <<216, 246>>, <<248, 442>>, <<444, 447>>, <<452, 659>>,
    <<661, 687>>, <<880, 883>>, <<886, 887>>, <<891, 893>>, <<895, 895>>,
    <<902, 902>>, <<904, 906>>, <<908, 908>>, <<910, 929>>, <<931, 1013>>,
    <<1015, 1153>>, <<1162, 1327>>, <<1329, 1366>>, <<1376, 1416>>,
    <<4256, 4293>>, <<4295, 4295>>, <<4301, 4301>>, <<4304, 4346>>,
    <<4349, 4351>>, <<5024, 5109>>, <<5112, 5117>>, <<7296, 7304>>,
    <<7312, 7354>>, <<7357, 7359>>, <<7424, 7467>>, <<7531, 7543>>,
    <<7545, 7578>>, <<7680, 7957>>, <<7960, 7965>>, <<7968, 8005>>,
    <<8008, 8013>>, <<8016, 8023>>, <<8025, 8025>>, <<8027, 8027>>,
    <<8029, 8029>>, <<8031, 8061>>, <<8064, 8116>>, <<8118, 8124>>,
    <<8126, 8126>>, <<8130, 8132>>, <<8134, 8140>>, <<8144, 8147>>,
    <<8150, 8155>>, <<8160, 8172>>, <<8178, 8180>>, <<8182, 8188>>,
    <<8450, 8450>>, <<8455, 8455>>, <<8458, 8467>>, <<8469, 8469>>,
    <<8473, 8477>>, <<8484, 8484>>, <<8486, 8486>>, <<8488, 8488>>,
    <<8490, 8493>>, <<8495, 8500>>, <<8505, 8505>>, <<8508, 8511>>,
    <<8517, 8521>>, <<8526, 8526>>, <<8544, 8575>>, <<8579, 8580>>,
    <<9398, 9449>>, <<11264, 11387>>, <<11390, 11492>>, <<11499, 11502>>,
    <<11506, 11507>>, <<11520, 11557>>, <<11559, 11559>>, <<11565, 11565>>,
    <<42560, 42605>>, <<42624, 42651>>, <<42786, 42863>>, <<42865, 42887>>,
    <<42891, 42894>>, <<42896, 42954>>, <<42960, 42961>>, <<42963, 42963>>,
    <<42965, 42969>>, <<42997, 42998>>, <<43002, 43002>>, <<43824, 43866>>,
    <<43872, 43880>>, <<43888, 43967>>, <<64256, 64262>>, <<64275, 64279>>,
    <<65313, 65338>>, <<65345, 65370>>, <<66560, 66639>>, <<66736, 66771>>,
    <<66776, 66811>>, <<66928, 66938>>, <<66940, 66954>>, <<66956, 66962>>,
    <<66964, 66965>>, <<66967, 66977>>, <<66979, 66993>>, <<66995, 67001>>,
    <<67003, 67004>>, <<68736, 68786>>, <<68800, 68850>>, <<71840, 71903>>,
    <<93760, 93823>>, <<119808, 119892>>, <<119894, 119964>>,
    <<119966, 119967>>, <<119970, 119970>>, <<119973, 119974>>,
    <<119977, 119980>>, <<119982, 119993>>, <<119995, 119995>>,
    <<119997, 120003>>, <<120005, 120069>>, <<120071, 120074>>,
    <<120077, 120084>>, <<120086, 120092>>, <<120094, 120121>>,
    <<120123, 120126>>, <<120128, 120132>>, <<120134, 120134>>,
    <<120138, 120144>>, <<120146, 120485>>, <<120488, 120512>>,
    <<120514, 120538>>, <<120540, 120570>>, <<120572, 120596>>,
    <<120598, 120628>>, <<120630, 120654>>, <<120656, 120686>>,
    <<120688, 120712>>, <<120714, 120744>>, <<120746, 120770>>,
    <<120772, 120779>>, <<122624, 122633>>, <<122635, 122654>>,
    <<125184, 125251>>, <<127280, 127305>>, <<127312, 127337>>,
    <<127344, 127369>>}

InRanges(c, R) == \E r \in R : r[1] <= c /\ c <= r[2]

\* a capital sigma is final when a cased character comes before it and none
\* after it, case-ignorable characters looked through
FinalSigma(s, i) ==
    LET before == {j \in 1..(i - 1) : ~InRanges(s[j], CaseIgnorable)}
        after  == {j \in (i + 1)..Len(s) : ~InRanges(s[j], CaseIgnorable)}
    IN  /\ before # {}
        /\ InRanges(s[CHOOSE j \in before : \A k \in before : k <= j], Cased)
        /\ \/ after = {}
           \/ ~InRanges(s[CHOOSE j \in after : \A k \in after : j <= k], Cased)

\* the lower case of the character at i: A-Z are 32 places below a-z, the
\* dotted capital I (304) becomes two characters, the capital sigma (931)
\* the final or the common small sigma
LowerAt(s, i) ==
    IF s[i] < 128 THEN <<IF s[i] \in 65..90 THEN s[i] + 32 ELSE s[i]>>
    ELSE IF s[i] = 304 THEN <<105, 775>>
    ELSE IF s[i] = 931 THEN <<IF FinalSigma(s, i) THEN 962 ELSE 963>>
    ELSE IF \E r \in ToLower : r[1] <= s[i] /\ s[i] <= r[2] /\ (s[i] - r[1]) % r[3] = 0
    THEN <<s[i] + (CHOOSE r \in ToLower :
                       r[1] <= s[i] /\ s[i] <= r[2] /\ (s[i] - r[1]) % r[3] = 0)[4]>>
    ELSE <<s[i]>>

RECURSIVE LowerFrom(_, _)
LowerFrom(s, i) == IF i > Len(s) THEN <<>> ELSE LowerAt(s, i) \o LowerFrom(s, i + 1)

\* str.lower()
lower(self) == Str(LowerFrom(self.chars, 1))

\* _DIR_MAP:
\*     "n": "north"
\*     "north": "north"
\*     "s": "south"
\*     "south": "south"
\*     "e": "east"
\*     "east": "east"
\*     "w": "west"
\*     "west": "west"
\*     "front": "front"
\*     "back": "back"
\*     "left": "left"
\*     "right": "right"
_DIR_MAP ==
    (Str(<<110>>) :> Str(<<110, 111, 114, 116, 104>>)) @@
    (Str(<<110, 111, 114, 116, 104>>) :> Str(<<110, 111, 114, 116, 104>>)) @@
    (Str(<<115>>) :> Str(<<115, 111, 117, 116, 104>>)) @@
    (Str(<<115, 111, 117, 116, 104>>) :> Str(<<115, 111, 117, 116, 104>>)) @@
    (Str(<<101>>) :> Str(<<101, 97, 115, 116>>)) @@
    (Str(<<101, 97, 115, 116>>) :> Str(<<101, 97, 115, 116>>)) @@
    (Str(<<119>>) :> Str(<<119, 101, 115, 116>>)) @@
    (Str(<<119, 101, 115, 116>>) :> Str(<<119, 101, 115, 116>>)) @@
    (Str(<<102, 114, 111, 110, 116>>) :> Str(<<102, 114, 111, 110, 116>>)) @@
    (Str(<<98, 97, 99, 107>>) :> Str(<<98, 97, 99, 107>>)) @@
    (Str(<<108, 101, 102, 116>>) :> Str(<<108, 101, 102, 116>>)) @@
    (Str(<<114, 105, 103, 104, 116>>) :> Str(<<114, 105, 103, 104, 116>>))

\* _DIR_MAP.get(key, key)
DirGet(key) == IF key \in DOMAIN _DIR_MAP THEN _DIR_MAP[key] ELSE key

\* label or "": a label of None, like the empty one, is the empty string
OrEmpty(label) == IF label = None THEN Str(<<>>) ELSE label

\* key = (label or "").strip().lower()
normalize_direction(label) == DirGet(lower(strip(OrEmpty(label))))

\* ---------------------------------------------------------- OrientedWall
\* variant: the label stored as given
OrientedWall_raw(wall, direction) ==
    [wall |-> wall, direction |-> direction]

\* OrientedWall.__init__: wall is a reference (an index into the heap walls)
OrientedWall(wall, direction) ==
    [wall |-> wall, direction |-> normalize_direction(direction)]

\* variant: no clamp
OrientedWall_siding_area_sq_in_unclamped(self, heap) ==
    Wall_siding_area_sq_in(heap[self.wall])

OrientedWall_siding_area_sq_in(self, heap) ==
    max(Float(0), Wall_siding_area_sq_in(heap[self.wall]))

\* --------------------------------------------------------- WallContainer
\* variant: the list replaced by the new entry instead of appended to
add_wall_assign(self, wall, direction) == <<OrientedWall(wall, direction)>>

add_wall(self, wall, direction) == Append(self, OrientedWall(wall, direction))

\* total = 0.0, then total += ow.siding_area_sq_in() for each selected wall
RECURSIVE TotalLoop(_, _, _, _)
TotalLoop(self, heap, none, dirs) ==
    IF self = <<>> THEN Float(0)
    ELSE LET ow   == self[Len(self)]
             prev == TotalLoop(SubSeq(self, 1, Len(self) - 1), heap, none, dirs)
         IN  IF none \/ ow.direction \in dirs
             THEN Add(prev, OrientedWall_siding_area_sq_in(ow, heap))
             ELSE prev

\* variant: the requested labels used as given
total_siding_area_sq_in_unnormalized(self, heap, directions) ==
    TotalLoop(self, heap, directions = None,
              IF directions = None THEN {}
              ELSE {OrEmpty(directions.items[i]) : i \in 1..Len(directions.items)})

\* directions is None or a list of labels; dirs is None or the set of their
\* normalized directions
total_siding_area_sq_in(self, heap, directions) ==
    TotalLoop(self, heap, directions = None,
              IF directions = None THEN {}
              ELSE {normalize_direction(directions.items[i]) :
                        i \in 1..Len(directions.items)})

total_siding_area_ft_in(self, heap, directions) ==
    convert_sq_in_to_ft_in(total_siding_area_sq_in(self, heap, directions))

\* out.get(k, 0.0)
Get(out, k) == IF k \in DOMAIN out THEN out[k] ELSE Float(0)

\* variant: a later wall overwrites its direction's entry
RECURSIVE breakdown_by_direction_overwrite(_, _)
breakdown_by_direction_overwrite(self, heap) ==
    IF self = <<>> THEN Dict(<<>>)
    ELSE LET ow  == self[Len(self)]
             out == breakdown_by_direction_overwrite(SubSeq(self, 1, Len(self) - 1), heap)
             v   == OrientedWall_siding_area_sq_in(ow, heap)
         IN  IF Raised(out) THEN out
             ELSE IF Raised(v) THEN v
             ELSE Dict([k \in DOMAIN out.items \cup {ow.direction} |->
                           IF k = ow.direction THEN v ELSE out.items[k]])

\* the dict built by the loop, or the exception raised on the way
RECURSIVE breakdown_by_direction(_, _)
breakdown_by_direction(self, heap) ==
    IF self = <<>> THEN Dict(<<>>)
    ELSE LET ow  == self[Len(self)]
             out == breakdown_by_direction(SubSeq(self, 1, Len(self) - 1), heap)
             v   == Add(IF Raised(out) THEN out ELSE Get(out.items, ow.direction),
                        OrientedWall_siding_area_sq_in(ow, heap))
         IN  IF Raised(out) THEN out
             ELSE IF Raised(v) THEN v
             ELSE Dict([k \in DOMAIN out.items \cup {ow.direction} |->
                           IF k = ow.direction THEN v ELSE out.items[k]])

\* {k: convert_sq_in_to_ft_in(v) for k, v in si.items()}
breakdown_by_direction_ft_in(self, heap) ==
    LET si  == breakdown_by_direction(self, heap)
        out == [k \in DOMAIN si.items |-> convert_sq_in_to_ft_in(si.items[k])]
    IN  IF Raised(si) THEN si
        ELSE IF \E k \in DOMAIN out : Raised(out[k])
        THEN out[CHOOSE k \in DOMAIN out : Raised(out[k])]
        ELSE Dict(out)

\* ---------------------------------------------------------------- inputs
\* a section and the opening of main(), and a section whose sides are not
\* whole inches
SectionInputs ==
    {RectSection(Num(144), Num(96)),
     RectSection(Frac(1, 10), Num(3))}

OpeningInputs == {Opening(Num(35), Num(59))}

\* the sections and the opening of the walls a container stores: the areas
\* are the int 13824, the whole float 2^67, which no smaller area can be
\* added to exactly, and the whole float 2065.0
StoredSections ==
    {RectSection(Num(144), Num(96)),
     RectSection(Double(0, <<1>>, 67), Num(1))}

StoredOpenings == {Opening(Float(35), Num(59))}

\* "back", "Back ", "n", "north", " Porch", "right" and "";
\* " N" followed by a vertical tab or by a no-break space, white space that
\* only strip() knows; and the Greek word for street in capitals and in
\* small letters, whose last letter has a lower case of its own at the end
\* of a word
L_back  == Str(<<98, 97, 99, 107>>)
L_Back_ == Str(<<66, 97, 99, 107, 32>>)
L_n     == Str(<<110>>)
L_north == Str(<<110, 111, 114, 116, 104>>)
L_Porch == Str(<<32, 80, 111, 114, 99, 104>>)
L_N_vt  == Str(<<32, 78, 11>>)
L_N_nbsp == Str(<<32, 78, 160>>)
L_right == Str(<<114, 105, 103, 104, 116>>)
L_empty == Str(<<>>)
L_ODOS  == Str(<<927, 916, 927, 931>>)
L_odos  == Str(<<959, 948, 959, 963>>)

\* the labels passed to add_wall: a str, or None
LabelInputs == <<L_back, L_Back_, L_n, L_N_vt, None, L_ODOS>>
\* the labels passed in a directions request
RequestLabels ==
    LabelInputs \o <<L_north, L_N_nbsp, L_right, L_empty, L_Porch, L_odos>>

\* --------------------------------------------------- the container program
\* the number of calls made so far: Wall(), add_section, add_opening, add_wall
Calls ==
    LET RECURSIVE Count(_)
        Count(i) == IF i = 0 THEN 0
                    ELSE Count(i - 1) + Len(walls[i].sections) + Len(walls[i].openings)
    IN  Len(walls) + Count(Len(walls)) + Len(_walls)

\* the walls a run makes: a wall takes three calls to make, fill and add
MaxWalls == MaxCalls \div 3

Init ==
    /\ walls = <<>>
    /\ _walls = <<>>
    /\ args = None
    /\ ret = None

\* w = Wall()
NewWall ==
    /\ Calls < MaxCalls
    /\ Len(walls) < MaxWalls
    /\ walls' = Append(walls, Wall)
    /\ UNCHANGED <<_walls, args, ret>>

\* walls[w].add_section(section)
AddSection(w, section) ==
    /\ Calls < MaxCalls
    /\ walls' = [walls EXCEPT ![w] = add_section(@, section)]
    /\ UNCHANGED <<_walls, args, ret>>

\* walls[w].add_opening(opening)
AddOpening(w, opening) ==
    /\ Calls < MaxCalls
    /\ walls' = [walls EXCEPT ![w] = add_opening(@, opening)]
    /\ UNCHANGED <<_walls, args, ret>>

\* container.add_wall(walls[w], direction), for a container of MaxStored
\* entries at most
AddWall(w, direction) ==
    /\ Calls < MaxCalls
    /\ Len(_walls) < MaxStored
    /\ _walls' = add_wall(_walls, w, direction)
    /\ UNCHANGED <<walls, args, ret>>

Next ==
    \/ NewWall
    \/ \E w \in 1..Len(walls), s \in StoredSections : AddSection(w, s)
    \/ \E w \in 1..Len(walls), o \in StoredOpenings : AddOpening(w, o)
    \/ \E w \in 1..Len(walls), d \in DOMAIN LabelInputs : AddWall(w, LabelInputs[d])

Spec == Init /\ [][Next]_vars

\* ------------------------------------------- the triangle difference
\* pitch_rise / pitch_run pairs: 6/12 and 1/2 are one pitch written twice,
\* 6/10 is another pitch, a run of 0 has no pitch, and 2000000001/2000000000
\* and 1000000001/1000000000 are within and just outside the tolerance of 1/1
PitchInputs ==
    {<<6, 12>>, <<1, 2>>, <<6, 10>>, <<6, 0>>, <<1, 1>>,
     <<2000000001, 2000000000>>, <<1000000001, 1000000000>>}

\* whole bases from -1 (which the constructor refuses), the bases 322.4,
\* 213.6 and 0.1, and the bases 95.97, 96.03 and 141.73, whose squares by **
\* are not the rounded products
BaseInputs ==
    {Num(b) : b \in (-1)..MaxBase}
        \cup {Frac(3224, 10), Frac(2136, 10), Frac(1, 10),
              Frac(9597, 100), Frac(9603, 100), Frac(14173, 100)}

\* the triangles TriSection(...) constructs
TriInputs ==
    {t \in {TriSection(b, Num(p[1]), Num(p[2])) : b \in BaseInputs, p \in PitchInputs} :
        ~Raised(t)}

InitTri ==
    /\ walls = <<>>
    /\ _walls = <<>>
    /\ args \in [outer : TriInputs, inner : TriInputs]
    /\ ret = None

\* outer.equivalent_difference(inner)
CallEquivalentDifference ==
    /\ ret = None
    /\ ret' = [op |-> "equivalent_difference",
               out |-> equivalent_difference(args.outer, args.inner)]
    /\ UNCHANGED <<walls, _walls, args>>

\* outer - inner
CallSub ==
    /\ ret = None
    /\ ret' = [op |-> "__sub__", out |-> __sub__(args.outer, args.inner)]
    /\ UNCHANGED <<walls, _walls, args>>

NextTri == CallEquivalentDifference \/ CallSub

SpecTri == InitTri /\ [][NextTri]_vars

\* ------------------------------------------------ the unit conversions
\* the lists of at most two items of S
UpToTwo(S) == {<<>>} \cup {<<a>> : a \in S} \cup {<<a, b>> : a \in S, b \in S}

\* the walls Wall() and at most two add_section and two add_opening calls
\* build, of sections and openings with whole and with decimal sides
WallInputs ==
    {[sections |-> ss, openings |-> os] :
        ss \in UpToTwo(SectionInputs
                         \cup {RectSection(Frac(3, 10), Num(1)),
                               RectSection(Frac(7, 10), Num(1440))}),
        os \in UpToTwo(OpeningInputs \cup {Opening(Frac(1, 10), Num(3))})}

\* whole areas, as ints and as floats, and areas that are not whole
AreaInputs ==
    {Num(k) : k \in (-MaxArea)..MaxArea}
        \cup {Float(k) : k \in (-MaxArea)..MaxArea}
        \cup {Num(11759), Num(10000), Frac(-1, 2), Frac(287, 2), Frac(-289, 2),
              Frac(1441, 10), Frac(-1, 10),
              Sub(Mul(Frac(3, 10), Num(1)), Mul(Frac(1, 10), Num(3)))}

PanelAreaInputs ==
    {Num(-144), Num(-1), Num(0), Num(1), Num(143), Num(144), Num(145),
     Num(288), Num(432), Num(864), Num(10000), Frac(1, 2), Float(0)}

PanelInputs ==
    {Num(-1), Num(0), Float(0), Num(1), Num(2), Num(32), Frac(1, 2),
     Frac(3, 10), Frac(1, 10)}

WasteInputs == {Num(0), Frac(1, 10), Frac(1, 20), Frac(1, 2), Frac(-1, 2)}

\* a wall to convert the siding area of, or an area to convert
InitConv ==
    /\ \/ walls \in {<<w>> : w \in WallInputs} /\ args = [area |-> Num(0)]
       \/ walls = <<Wall>> /\ args \in [area : AreaInputs]
    /\ _walls = <<>>
    /\ ret = None

\* convert_sq_in_to_ft_in(area)
CallConvert ==
    /\ ret = None
    /\ ret' = [op |-> "convert_sq_in_to_ft_in",
               out |-> convert_sq_in_to_ft_in(args.area)]
    /\ UNCHANGED <<walls, _walls, args>>

\* walls[1].siding_area_ft_in()
CallSidingAreaFtIn ==
    /\ ret = None
    /\ ret' = [op |-> "Wall.siding_area_ft_in", out |-> siding_area_ft_in(walls[1])]
    /\ UNCHANGED <<walls, _walls, args>>

NextConv == CallConvert \/ CallSidingAreaFtIn

SpecConv == InitConv /\ [][NextConv]_vars

\* a wall or an area to count the panels of
InitPanels ==
    /\ \/ /\ walls \in {<<w>> : w \in WallInputs}
          /\ args \in [area : {Num(0)}, panel_sq_ft : PanelInputs,
                       waste_pct : WasteInputs]
       \/ /\ walls = <<Wall>>
          /\ args \in [area : PanelAreaInputs, panel_sq_ft : PanelInputs,
                       waste_pct : WasteInputs]
    /\ _walls = <<>>
    /\ ret = None

\* panels_needed_for_area_sq_in(area, panel_sq_ft, waste_pct)
CallPanelsNeededForArea ==
    /\ ret = None
    /\ ret' = [op |-> "panels_needed_for_area_sq_in",
               out |-> panels_needed_for_area_sq_in(args.area, args.panel_sq_ft,
                                                    args.waste_pct)]
    /\ UNCHANGED <<walls, _walls, args>>

\* walls[1].panels_needed(panel_sq_ft, waste_pct)
CallPanelsNeeded ==
    /\ ret = None
    /\ ret' = [op |-> "Wall.panels_needed",
               out |-> panels_needed(walls[1], args.panel_sq_ft, args.waste_pct)]
    /\ UNCHANGED <<walls, _walls, args>>

NextPanels == CallPanelsNeededForArea \/ CallPanelsNeeded

SpecPanels == InitPanels /\ [][NextPanels]_vars


\* ------------------------------------------------------------ one wall
\* sections with areas that are a whole int (13824), a decimal, a whole
\* float (the triangle's 18.0) and a whole float that no smaller area can be
\* added to exactly (2^67), and openings with a whole and a decimal area
WallSectionInputs ==
    SectionInputs \cup {TriSection(Num(12), Num(6), Num(12)),
                        RectSection(Double(0, <<1>>, 67), Num(1))}

WallOpeningInputs == OpeningInputs \cup {Opening(Frac(1, 10), Num(3))}

\* the add_section and add_opening calls made on the wall so far
Items == Len(walls[1].sections) + Len(walls[1].openings)

\* w = Wall()
InitWall ==
    /\ walls = <<Wall>>
    /\ _walls = <<>>
    /\ args = None
    /\ ret = None

\* w.add_section(section)
WallAddSection(section) ==
    /\ Items < MaxItems
    /\ walls' = [walls EXCEPT ![1] = add_section(@, section)]
    /\ UNCHANGED <<_walls, args, ret>>

\* w.add_opening(opening)
WallAddOpening(opening) ==
    /\ Items < MaxItems
    /\ walls' = [walls EXCEPT ![1] = add_opening(@, opening)]
    /\ UNCHANGED <<_walls, args, ret>>

NextWall ==
    \/ \E s \in WallSectionInputs : WallAddSection(s)
    \/ \E o \in WallOpeningInputs : WallAddOpening(o)

SpecWall == InitWall /\ [][NextWall]_vars
\* ------------------------------------------------- helpers for the claims
\* the elements of a sequence, as a set
Range(seq) == {seq[i] : i \in 1..Len(seq)}

\* real arithmetic on finite numbers, with nothing rounded: sum, difference,
\* product and absolute value
ExactAdd(a, b) ==
    IF a.man = <<>> THEN [b EXCEPT !.kind = "real"]
    ELSE IF b.man = <<>> THEN [a EXCEPT !.kind = "real"]
    ELSE DSum("real", a, b)

ExactSub(a, b) == ExactAdd(a, [b EXCEPT !.sign = 1 - @])

ExactMul(a, b) ==
    Dyadic("real", (a.sign + b.sign) % 2, BMul(a.man, b.man), a.exp + b.exp)

ExactAbs(a) == [a EXCEPT !.sign = 0]

\* k * 2^e, exactly
Pow2Times(k, e) == Dyadic("real", 0, BNat(k), e)

\* a has a whole value
IsWhole(a) == a.fp = "fin" /\ a.exp >= 0

\* the sum of the numbers f[i] for i in I, added one by one from start in
\* the order of the indices
RECURSIVE SumOver(_, _, _)
SumOver(f, I, start) ==
    IF I = {} THEN start
    ELSE LET m == CHOOSE i \in I : \A j \in I : j <= i
         IN  Add(SumOver(f, I \ {m}, start), f[m])

\* the same sum with nothing rounded
RECURSIVE ExactSumOver(_, _)
ExactSumOver(f, I) ==
    IF I = {} THEN Pow2Times(0, 0)
    ELSE LET m == CHOOSE i \in I : TRUE
         IN  ExactAdd(ExactSumOver(f, I \ {m}), f[m])

\* the areas of a list of sections or openings
Areas(items) == [i \in 1..Len(items) |-> area_sq_in(items[i])]

\* sections minus openings of a wall, each list summed in the order added
SectionsMinusOpenings(w) ==
    Sub(SumOver(Areas(w.sections), 1..Len(w.sections), Num(0)),
        SumOver(Areas(w.openings), 1..Len(w.openings), Num(0)))

Stored == 1..Len(_walls)

\* max(0, sections - openings) of the wall stored at each position
Clamped ==
    [i \in Stored |->
        LET a == SectionsMinusOpenings(walls[_walls[i].wall])
        IN  IF Gt(a, Num(0)) THEN a ELSE Float(0)]

\* the positions whose stored direction normalizes to key k
StoredUnder(k) == {i \in Stored : normalize_direction(_walls[i].direction) = k}

\* the directions requests: no label, one, or two (a repeat, two spellings
\* of one direction, or two directions)
Requests ==
    <<<<>>>> \o [i \in DOMAIN RequestLabels |-> <<RequestLabels[i]>>]
        \o <<<<L_back, L_back>>, <<L_Back_, L_back>>, <<L_back, L_n>>,
             <<L_Porch, L_right>>, <<None, L_N_nbsp>>>>

\* what the container reports
Reports(self, heap) ==
    <<total_siding_area_sq_in(self, heap, None),
      breakdown_by_direction(self, heap)>>

\* ------------------------------------------------------------------ C2
\* C2: total_siding_area_sq_in() with no filter is the sum over the stored
\* walls of max(0, siding area): each wall is clamped before summing, the
\* total is never negative, and a wall whose openings exceed its sections
\* contributes 0 and takes nothing from the other walls.
C2_TotalIsSumOfClamped ==
    LET total == total_siding_area_sq_in(_walls, walls, None)
        c     == Clamped
    IN  /\ total = SumOver(c, Stored, Float(0))
        /\ Ge(total, Num(0))
        /\ \A i \in Stored :
               /\ Le(c[i], total)
               /\ Lt(Wall_siding_area_sq_in(walls[_walls[i].wall]), Num(0))
                     => total = SumOver(c, Stored \ {i}, Float(0))

C2_Witness ==
    /\ Len(_walls) = 2
    /\ Wall_siding_area_sq_in(walls[_walls[1].wall]) = Float(-2065)
    /\ Wall_siding_area_sq_in(walls[_walls[2].wall]) = Num(13824)
    /\ total_siding_area_sq_in(_walls, walls, None) = Float(13824)

\* ------------------------------------------------------------------ C3
\* the keys of breakdown_by_direction() are the normalized directions of the
\* stored walls and each value is the sum of the clamped areas under its key
C3_KeysAndSums ==
    LET out == breakdown_by_direction(_walls, walls).items
        c   == Clamped
    IN  /\ DOMAIN out = {normalize_direction(_walls[i].direction) : i \in Stored}
        /\ \A k \in DOMAIN out : out[k] = SumOver(c, StoredUnder(k), Float(0))
        /\ normalize_direction(L_Back_) = normalize_direction(L_back)
        /\ normalize_direction(L_n) = normalize_direction(L_north)
        /\ normalize_direction(L_N_vt) = normalize_direction(L_north)
        /\ normalize_direction(L_N_nbsp) = normalize_direction(L_north)
        /\ normalize_direction(L_north) = L_north
        /\ \A d \in DOMAIN RequestLabels :
               normalize_direction(normalize_direction(RequestLabels[d]))
                   = normalize_direction(RequestLabels[d])

\* a step that adds a wall adds its clamped area under the normalized key
\* of its label and leaves the other keys alone
C3_AddWallAccumulates ==
    _walls' # _walls =>
        \A w \in 1..Len(walls), d \in DOMAIN LabelInputs :
            AddWall(w, LabelInputs[d]) =>
                LET out  == breakdown_by_direction(_walls, walls).items
                    out2 == breakdown_by_direction(_walls', walls').items
                    k    == normalize_direction(LabelInputs[d])
                    a    == Wall_siding_area_sq_in(walls[w])
                IN  /\ DOMAIN out2 = DOMAIN out \cup {k}
                    /\ out2[k] = Add(Get(out, k), IF Gt(a, Num(0)) THEN a ELSE Float(0))
                    /\ \A j \in DOMAIN out \ {k} : out2[j] = out[j]

\* the labels a and b differ in nothing but the white space around them and
\* the case of letters: stripped, they are as long as each other and each
\* character of a is that of b or the same letter in the other case
DifferOnlyInCase(a, b) ==
    /\ a # None /\ b # None
    /\ Len(strip(a).chars) = Len(strip(b).chars)
    /\ \A i \in 1..Len(strip(a).chars) :
           lower(Str(<<strip(a).chars[i]>>)) = lower(Str(<<strip(b).chars[i]>>))

\* the label has a capital sigma
HasCapitalSigma(a) == \E i \in 1..Len(a.chars) : a.chars[i] = 931

\* a wall of label b added after the last one would go under a key that
\* breakdown_by_direction() already has
SameKey(w, b) ==
    DOMAIN breakdown_by_direction(add_wall(_walls', w, b), walls').items
        = DOMAIN breakdown_by_direction(_walls', walls').items

\* the labels of add_wall and the labels that differ from each only in case,
\* as pairs of their positions in LabelInputs and RequestLabels
CasePairs ==
    {p \in (DOMAIN LabelInputs) \X (DOMAIN RequestLabels) :
        DifferOnlyInCase(LabelInputs[p[1]], RequestLabels[p[2]])}

\* those of them without a capital sigma
CasePairsButSigma ==
    {p \in CasePairs : /\ ~HasCapitalSigma(LabelInputs[p[1]])
                       /\ ~HasCapitalSigma(RequestLabels[p[2]])}

\* a wall added under a label and one added after it under a label that
\* differs from it only in case go under one key
C3_AnyCaseOneKey ==
    _walls' # _walls =>
        \A w \in 1..Len(walls), p \in CasePairs :
            AddWall(w, LabelInputs[p[1]]) => SameKey(w, RequestLabels[p[2]])

\* the same of labels without a capital sigma
C3_CaseOneKeyButSigma ==
    _walls' # _walls =>
        \A w \in 1..Len(walls), p \in CasePairsButSigma :
            AddWall(w, LabelInputs[p[1]]) => SameKey(w, RequestLabels[p[2]])

C4_FilteredTotal ==
    LET c   == Clamped
        dir == [i \in Stored |-> normalize_direction(_walls[i].direction)]
    IN  \A r \in DOMAIN Requests :
            LET req     == Requests[r]
                keys    == {normalize_direction(req[j]) : j \in 1..Len(req)}
                matched == {i \in Stored : dir[i] \in keys}
                total   == total_siding_area_sq_in(_walls, walls, List(req))
            IN  /\ total = SumOver(c, matched, Float(0))
                /\ (req = <<>> \/ matched = {}) => total = Float(0)

C4_Witness ==
    /\ Len(_walls) = 2
    /\ _walls[1].direction = L_back
    /\ _walls[2].direction = L_north
    /\ total_siding_area_sq_in(_walls, walls, List(<<L_Back_, L_back>>)) = Float(13824)
    /\ total_siding_area_sq_in(_walls, walls, List(<<L_N_nbsp>>)) = Double(0, <<1>>, 67)
    /\ total_siding_area_sq_in(_walls, walls, List(<<L_right>>)) = Float(0)


\* ------------------------------------------------------------------ C1
\* every order of the elements of S, each once
Orderings(S) ==
    {p \in [1..Cardinality(S) -> S] :
        \A i, j \in 1..Cardinality(S) : i # j => p[i] # p[j]}

\* the reorderings of a list
Reorderings(seq) ==
    {[i \in 1..Len(seq) |-> seq[p[i]]] : p \in Orderings(1..Len(seq))}

\* the sections' areas minus the openings' areas, with nothing rounded
ExactSectionsMinusOpenings(w) ==
    ExactSub(ExactSumOver(Areas(w.sections), 1..Len(w.sections)),
             ExactSumOver(Areas(w.openings), 1..Len(w.openings)))

\* the total of the absolute areas of a wall's sections and openings
ExactTotalArea(w) ==
    ExactAdd(
        ExactSumOver([i \in 1..Len(w.sections) |-> ExactAbs(area_sq_in(w.sections[i]))],
                     1..Len(w.sections)),
        ExactSumOver([i \in 1..Len(w.openings) |-> ExactAbs(area_sq_in(w.openings[i]))],
                     1..Len(w.openings)))

\* every section and opening of the wall has a whole area
WholeAreas(w) ==
    /\ \A i \in 1..Len(w.sections) : IsWhole(area_sq_in(w.sections[i]))
    /\ \A i \in 1..Len(w.openings) : IsWhole(area_sq_in(w.openings[i]))

\* the part of C1 about the sign: the area is not clamped, and is negative
\* whenever the openings' total exceeds the sections' total
C1_NotClamped ==
    LET w == walls[1]
    IN  /\ Wall_siding_area_sq_in(w) = SectionsMinusOpenings(w)
        /\ Gt(opening_area_sq_in(w), section_area_sq_in(w))
               => Lt(Wall_siding_area_sq_in(w), Num(0))

\* C1 as stated: siding_area_sq_in() is the sum of the section areas minus
\* the sum of the opening areas whatever the order of the add_section and
\* add_opening calls, and is negative when the openings exceed the sections.
C1_IndependentOfOrder ==
    LET w == walls[1]
    IN  /\ C1_NotClamped
        /\ \A ss \in Reorderings(w.sections), os \in Reorderings(w.openings) :
               Wall_siding_area_sq_in([sections |-> ss, openings |-> os])
                   = Wall_siding_area_sq_in(w)

\* C1 amended: siding_area_sq_in() is the sum of the section areas minus the
\* sum of the opening areas, each sum added up in floating point in the
\* order of the calls; it is within n * 2^-52 of the total area added (n
\* calls) of the sum with nothing rounded, which is what a reordering of
\* the calls can change, and it is that sum itself when every area is whole
\* and the areas added total 2^53 at most (whole areas beyond that, ints
\* with floats or floats alone, are rounded like any other); it is not
\* clamped and is negative when the openings exceed the sections.
C1_SumInOrderOfCalls ==
    LET w == walls[1]
        a == Wall_siding_area_sq_in(w)
    IN  /\ C1_NotClamped
        /\ Le(ExactAbs(ExactSub(a, ExactSectionsMinusOpenings(w))),
              ExactMul(Pow2Times(Items, -52), ExactTotalArea(w)))
        /\ (WholeAreas(w) /\ Le(ExactTotalArea(w), Pow2Times(1, 53)))
               => /\ Eq(a, ExactSectionsMinusOpenings(w))
                  /\ \A ss \in Reorderings(w.sections), os \in Reorderings(w.openings) :
                         Wall_siding_area_sq_in([sections |-> ss, openings |-> os]) = a

C1_Witness ==
    LET w == walls[1]
        x == Mul(Frac(1, 10), Num(3))
    IN  /\ Len(w.sections) = 3
        /\ Len(w.openings) = 1
        /\ area_sq_in(w.sections[1]) = x
        /\ area_sq_in(w.sections[2]) = Num(13824)
        /\ area_sq_in(w.sections[3]) = x
        /\ area_sq_in(w.openings[1]) = Num(2065)
        /\ Wall_siding_area_sq_in(w) # Wall_siding_area_sq_in(
               [w EXCEPT !.sections = <<w.sections[1], w.sections[3], w.sections[2]>>])

\* ------------------------------------------------------------------ C9
\* the container's list only grows at its end
AppendOnly ==
    /\ Len(_walls') >= Len(_walls)
    /\ \A i \in Stored : _walls'[i] = _walls[i]

\* C9 as stated: once walls are stored, what the container reports changes
\* only by a further add_wall; no other operation (in particular add_section
\* or add_opening on a wall already added) changes it.
C9_ReportsChangeOnlyByAddWall ==
    [][Reports(_walls', walls') # Reports(_walls, walls) =>
         \E w \in 1..Len(walls), d \in DOMAIN LabelInputs : AddWall(w, LabelInputs[d])]_vars

\* C9 amended: the container's list is append-only, and what it reports
\* changes only by add_wall or by add_section / add_opening on a wall object
\* the container holds (it keeps a reference to the wall, not a copy).
C9_ReportsChangeByAddWallOrHeldWall ==
    [][/\ AppendOnly
       /\ Reports(_walls', walls') # Reports(_walls, walls) =>
             \/ \E w \in 1..Len(walls), d \in DOMAIN LabelInputs :
                    AddWall(w, LabelInputs[d])
             \/ \E i \in Stored, s \in StoredSections : AddSection(_walls[i].wall, s)
             \/ \E i \in Stored, o \in StoredOpenings : AddOpening(_walls[i].wall, o)]_vars

C9_Witness ==
    /\ Len(walls) = 2
    /\ Len(_walls) = 1
    /\ Len(walls[_walls[1].wall].sections) = 1
    /\ \E w \in 1..Len(walls) : w # _walls[1].wall /\ Len(walls[w].openings) = 1
    /\ total_siding_area_sq_in(_walls, walls, None) = Float(13824)

\* ----------------------------------------------------------------- C10
\* the values of a dict added up from the int 0 in the order p of its keys
ValuesSum(out, p) == SumOver([i \in DOMAIN p |-> out[p[i]]], DOMAIN p, Num(0))

\* for every label d, in any spelling, total_siding_area_sq_in([d]) is the
\* breakdown's value at d's normalized key, or 0 when that key is absent
C10_SingleDirection ==
    LET out == breakdown_by_direction(_walls, walls).items
    IN  \A d \in DOMAIN RequestLabels :
            total_siding_area_sq_in(_walls, walls, List(<<RequestLabels[d]>>))
                = Get(out, normalize_direction(RequestLabels[d]))

\* C10 as stated: the two reporting paths agree: the values of
\* breakdown_by_direction() sum to total_siding_area_sq_in(), and each
\* single-direction total is the breakdown's value for that direction.
C10_BreakdownSumsToTotal ==
    LET out == breakdown_by_direction(_walls, walls).items
    IN  /\ \A p \in Orderings(DOMAIN out) :
               Eq(ValuesSum(out, p), total_siding_area_sq_in(_walls, walls, None))
        /\ C10_SingleDirection

\* C10 amended: each single-direction total is exactly the breakdown's value
\* for that direction (0 when absent); the breakdown's values sum to the
\* unfiltered total up to the rounding of the additions, which the two paths
\* group differently: the two differ by at most n * 2^-51 of the total for n
\* stored walls, and not at all when every wall's area is whole and the
\* areas total 2^53 at most.
C10_BreakdownAgreesWithTotal ==
    LET out   == breakdown_by_direction(_walls, walls).items
        total == total_siding_area_sq_in(_walls, walls, None)
        c     == Clamped
    IN  /\ C10_SingleDirection
        /\ \A p \in Orderings(DOMAIN out) :
               /\ Le(ExactAbs(ExactSub(ValuesSum(out, p), total)),
                     ExactMul(Pow2Times(Len(_walls), -51), ExactSumOver(c, Stored)))
               /\ (/\ \A i \in Stored : IsWhole(c[i])
                   /\ Le(ExactSumOver(c, Stored), Pow2Times(1, 53)))
                      => Eq(ValuesSum(out, p), total)

C10_Witness ==
    LET out == breakdown_by_direction(_walls, walls).items
    IN  /\ Len(_walls) = 3
        /\ _walls[1].direction = L_north
        /\ _walls[2].direction = L_back
        /\ _walls[3].direction = L_north
        /\ Clamped[1] = Num(13824)
        /\ Clamped[2] = Double(0, <<1>>, 67)
        /\ Clamped[3] = Num(13824)
        /\ out[L_north] = Float(2 * 13824)
        /\ total_siding_area_sq_in(_walls, walls, List(<<L_N_vt>>)) = Float(2 * 13824)
        /\ total_siding_area_sq_in(_walls, walls, None)
               # Add(out[L_north], out[L_back])

\* ------------------------------------------------------------------ C5
\* both triangles have a pitch (no run of 0)
HavePitch(o, i) == ~Raised(pitch(o)) /\ ~Raised(pitch(i))

\* the pitches rise/run are equal up to the tolerance of the comparison
PitchesMatch(o, i) == isclose(pitch(o), pitch(i))

\* a difference was taken, of args.outer and args.inner, with outcome ret.out
Subtracted == ret # None /\ ret.op \in {"equivalent_difference", "__sub__"}

C5_Failures ==
    Subtracted =>
        LET o == args.outer
            i == args.inner
        IN  HavePitch(o, i) =>
                /\ ~PitchesMatch(o, i) => ret.out = PitchError
                /\ (PitchesMatch(o, i) /\ Lt(o.base_in, i.base_in)) => ret.out = BaseError
                /\ (~PitchesMatch(o, i) \/ Lt(o.base_in, i.base_in)) => Raised(ret.out)

\* the error types a pitch mismatch raises, over all the inputs
PitchMismatchTypes ==
    {equivalent_difference(q[1], q[2]).type :
        q \in {x \in TriInputs \X TriInputs :
                  HavePitch(x[1], x[2]) /\ ~PitchesMatch(x[1], x[2])}}

\* C5 as stated: a pitch mismatch and an inner base larger than the outer
\* one fail with two distinguishable kinds of error (PitchMismatch,
\* InvalidGeometry); no triangle is returned.
C5_DistinctErrorKinds ==
    /\ C5_Failures
    /\ (Subtracted /\ ret.out = BaseError) => ret.out.type \notin PitchMismatchTypes

C5_Witness ==
    /\ Subtracted
    /\ HavePitch(args.outer, args.inner)
    /\ PitchesMatch(args.outer, args.inner)
    /\ args.outer.pitch_rise # args.inner.pitch_rise
    /\ args.outer.base_in = Float(3)
    /\ args.inner.base_in = Float(5)
    /\ ret.out = BaseError

\* ------------------------------------------------------------------ C6
\* a difference was taken of two triangles of equal pitch, the inner base
\* not the larger one
SubtractedEqualPitch ==
    /\ Subtracted
    /\ HavePitch(args.outer, args.inner)
    /\ Eq(pitch(args.outer), pitch(args.inner))
    /\ Le(args.inner.base_in, args.outer.base_in)

\* the result is a triangle with the outer's rise and run and a base >= 0,
\* and equal bases give base 0 and area 0
C6_NewTriangle ==
    SubtractedEqualPitch =>
        /\ ret.out.kind = "TriSection"
        /\ ret.out.pitch_rise = args.outer.pitch_rise
        /\ ret.out.pitch_run = args.outer.pitch_run
        /\ Ge(ret.out.base_in, Num(0))
        /\ args.inner.base_in = args.outer.base_in =>
               /\ ret.out.base_in = Float(0)
               /\ Eq(area_sq_in(ret.out), Num(0))

\* C6 as stated: for outer and inner of equal pitch with inner.base_in <=
\* outer.base_in the difference is a new triangle with the outer's pitch_rise
\* and pitch_run and a base with base^2 = outer.base_in^2 - inner.base_in^2,
\* so its area is outer.area_sq_in() - inner.area_sq_in(); equal bases give
\* base 0, area 0.
C6_DifferenceAreaExact ==
    /\ C6_NewTriangle
    /\ SubtractedEqualPitch =>
           /\ Eq(Sq(ret.out.base_in),
                 Sub(Sq(args.outer.base_in), Sq(args.inner.base_in)))
           /\ Eq(area_sq_in(ret.out),
                 Sub(area_sq_in(args.outer), area_sq_in(args.inner)))

\* a difference was taken of two triangles that the method accepts: the
\* pitches match within the tolerance of its comparison, and the inner base
\* is not the larger one
SubtractedMatching ==
    /\ Subtracted
    /\ HavePitch(args.outer, args.inner)
    /\ PitchesMatch(args.outer, args.inner)
    /\ Le(args.inner.base_in, args.outer.base_in)

\* the area of the inner triangle at the outer's pitch, which is
\* inner.area_sq_in() when the pitches are equal
InnerAreaAtOuterPitch ==
    area_sq_in([args.inner EXCEPT !.pitch_rise = args.outer.pitch_rise,
                                  !.pitch_run = args.outer.pitch_run])

\* the result for accepted operands is a triangle with the outer's rise and
\* run and a base >= 0, and equal bases give base 0 and area 0
C6_NewTriangleOfOuterPitch ==
    SubtractedMatching =>
        /\ ret.out.kind = "TriSection"
        /\ ret.out.pitch_rise = args.outer.pitch_rise
        /\ ret.out.pitch_run = args.outer.pitch_run
        /\ Ge(ret.out.base_in, Num(0))
        /\ args.inner.base_in = args.outer.base_in =>
               /\ ret.out.base_in = Float(0)
               /\ Eq(area_sq_in(ret.out), Num(0))

\* C6 amended: whenever the pitches match within the tolerance of the
\* comparison (equal pitches included) and inner.base_in <= outer.base_in,
\* the difference is a new triangle with the outer's pitch_rise and pitch_run
\* and the base sqrt(outer.base_in^2 - inner.base_in^2) computed in floating
\* point, so base^2 = outer.base_in^2 - inner.base_in^2 holds within 2^-50 of
\* outer.base_in^2, and the area is outer.area_sq_in() less the area of the
\* inner triangle at the outer's pitch within 2^-49 of outer.area_sq_in();
\* that area is inner.area_sq_in() when the pitches are equal.  Both are
\* exact for bases 5 and 3 (base 4) at pitch 6/12, and equal bases give base
\* 0, area 0.
C6_DifferenceArea ==
    /\ C6_NewTriangleOfOuterPitch
    /\ SubtractedMatching =>
           LET o == args.outer.base_in
               i == args.inner.base_in
               b == ret.out.base_in
           IN  /\ Le(ExactAbs(ExactSub(ExactMul(b, b),
                                       ExactSub(ExactMul(o, o), ExactMul(i, i)))),
                     ExactMul(Pow2Times(1, -50), ExactMul(o, o)))
               /\ Le(ExactAbs(ExactSub(area_sq_in(ret.out),
                                       ExactSub(area_sq_in(args.outer),
                                                InnerAreaAtOuterPitch))),
                     ExactMul(Pow2Times(1, -49), ExactAbs(area_sq_in(args.outer))))
               /\ Eq(pitch(args.outer), pitch(args.inner))
                      => InnerAreaAtOuterPitch = area_sq_in(args.inner)
               /\ (o = Float(5) /\ i = Float(3)) => b = Float(4)
               /\ (o = Float(5) /\ i = Float(3) /\ pitch(args.outer) = Half) =>
                      /\ Eq(area_sq_in(ret.out),
                            Sub(area_sq_in(args.outer), InnerAreaAtOuterPitch))

C6_Witness ==
    /\ Subtracted
    /\ args.outer = TriSection(Num(3), Num(6), Num(12))
    /\ args.inner = TriSection(Num(1), Num(1), Num(2))
    /\ ret.out = TriSection(sqrt(Float(8)), Num(6), Num(12))
    /\ Gt(area_sq_in(ret.out), Float(1))
    /\ Sub(area_sq_in(args.outer), area_sq_in(args.inner)) = Float(1)

\* ------------------------------------------------------------------ C7
\* a panel count was taken
Counted == ret # None /\ ret.op \in {"panels_needed_for_area_sq_in", "Wall.panels_needed"}

\* the area a panels call is about: the argument, or the wall's sections
\* minus its openings (not clamped)
PanelsArea ==
    IF ret.op = "Wall.panels_needed" THEN SectionsMinusOpenings(walls[1])
    ELSE args.area

\* 144 times the square feet to cover, max(0, area) * (1 + waste_pct), with
\* nothing rounded
Need144 ==
    ExactMul(IF Gt(PanelsArea, Num(0)) THEN PanelsArea ELSE Num(0),
             ExactAdd(Num(1), args.waste_pct))

\* 144 times the square feet n panels cover, with nothing rounded
Cover144(n) == ExactMul(ExactMul(Num(SQ_IN_PER_SQ_FT), n), args.panel_sq_ft)

\* a panel size <= 0 fails with ValueError; an area <= 0 needs 0 panels;
\* area 10000 with 32 sq ft panels and 10% waste needs 3
C7_Fixed ==
    Counted =>
        /\ Le(args.panel_sq_ft, Num(0)) =>
               (Raised(ret.out) /\ ret.out.type = "ValueError")
        /\ (Gt(args.panel_sq_ft, Num(0)) /\ Ge(args.waste_pct, Num(0))) =>
               /\ ret.out.kind = "int"
               /\ Ge(ret.out, Num(0))
               /\ Le(PanelsArea, Num(0)) => ret.out = Num(0)
        /\ (PanelsArea = Num(10000) /\ args.panel_sq_ft = Num(32)
               /\ args.waste_pct = Frac(1, 10)) => ret.out = Num(3)

\* C7 as stated: panels_needed_for_area_sq_in fails with ValueError whenever
\* panel_sq_ft <= 0; otherwise, for waste_pct >= 0, it returns the least
\* integer n >= 0 with n * panel_sq_ft >= (max(0, area) / 144) * (1 + waste_pct),
\* so an area <= 0 gives 0 and a partial panel is rounded up; Wall.panels_needed
\* gives the same for the wall's unclamped siding area.
C7_LeastCount ==
    /\ C7_Fixed
    /\ (Counted /\ Gt(args.panel_sq_ft, Num(0)) /\ Ge(args.waste_pct, Num(0))) =>
           /\ Le(Need144, Cover144(ret.out))
           /\ Gt(ret.out, Num(0)) => Lt(Cover144(Sub(ret.out, Num(1))), Need144)

\* C7 amended: the count is the ceiling of the quotient computed in floating
\* point, so it is the least such n up to the rounding of that quotient: n
\* panels cover the need less 2^-50 of it, and n - 1 panels do not cover the
\* need plus 2^-50 of it.
C7_PanelsNeeded ==
    /\ C7_Fixed
    /\ (Counted /\ Gt(args.panel_sq_ft, Num(0)) /\ Ge(args.waste_pct, Num(0))) =>
           /\ Le(ExactMul(Need144, ExactSub(Num(1), Pow2Times(1, -50))),
                 Cover144(ret.out))
           /\ Gt(ret.out, Num(0)) =>
                  Lt(Cover144(Sub(ret.out, Num(1))),
                     ExactMul(Need144, ExactAdd(Num(1), Pow2Times(1, -50))))

C7_Witness ==
    /\ Counted
    /\ ret.op = "panels_needed_for_area_sq_in"
    /\ args.area = Num(864)
    /\ args.panel_sq_ft = Frac(1, 10)
    /\ args.waste_pct = Frac(1, 20)
    /\ ret.out = Num(64)
    /\ Le(Need144, Cover144(Num(63)))

\* ------------------------------------------------------------------ C8
\* a conversion was made
Converted == ret # None /\ ret.op \in {"convert_sq_in_to_ft_in", "Wall.siding_area_ft_in"}

\* the area a conversion call is about: the argument, or the wall's sections
\* minus its openings (which may be negative)
ConvArea ==
    IF ret.op = "Wall.siding_area_ft_in" THEN SectionsMinusOpenings(walls[1])
    ELSE args.area

\* sq_ft is the int floor(a / 144), and 11759 gives (81, 95)
C8_Floor ==
    Converted =>
        LET a     == ConvArea
            sq_ft == ret.out.items[1]
        IN  /\ ret.out.kind = "tuple"
            /\ sq_ft.kind = "int"
            /\ Le(ExactMul(Num(SQ_IN_PER_SQ_FT), sq_ft), a)
            /\ Lt(a, ExactMul(Num(SQ_IN_PER_SQ_FT), ExactAdd(sq_ft, Num(1))))
            /\ a = Num(11759) => ret.out = Tuple(<<Num(81), Num(95)>>)

\* C8 as stated: for every square-inch input a, negative ones included,
\* convert_sq_in_to_ft_in(a) = (sq_ft, rem) with sq_ft = floor(a / 144),
\* 0 <= rem < 144 and sq_ft * 144 + rem = a; 11759 gives (81, 95).
C8_FloorAndRemainderExact ==
    /\ C8_Floor
    /\ Converted =>
           LET rem == ret.out.items[2]
           IN  /\ Le(Num(0), rem)
               /\ Lt(rem, Num(SQ_IN_PER_SQ_FT))
               /\ Eq(ExactAdd(ExactMul(Num(SQ_IN_PER_SQ_FT), ret.out.items[1]), rem),
                     ConvArea)

\* C8 amended: sq_ft = floor(a / 144) for every a; for an int a and for a
\* float a >= 0, 0 <= rem < 144 and sq_ft * 144 + rem = a; for a float
\* a < 0, rem is a - sq_ft * 144 rounded to a double, so 0 <= rem <= 144
\* (144.0 itself for a tiny negative a) and sq_ft * 144 + rem is a within
\* 2^-46.
C8_FloorAndRemainder ==
    /\ C8_Floor
    /\ Converted =>
           LET a    == ConvArea
               rem  == ret.out.items[2]
               back == ExactAdd(ExactMul(Num(SQ_IN_PER_SQ_FT), ret.out.items[1]), rem)
           IN  /\ Le(Num(0), rem)
               /\ Le(rem, Num(SQ_IN_PER_SQ_FT))
               /\ (a.kind = "int" \/ Ge(a, Num(0))) =>
                      (Lt(rem, Num(SQ_IN_PER_SQ_FT)) /\ Eq(back, a))
               /\ Le(ExactAbs(ExactSub(back, a)), Pow2Times(1, -46))

C8_Witness ==
    /\ Converted
    /\ ret.op = "Wall.siding_area_ft_in"
    /\ Len(walls[1].sections) = 1
    /\ Len(walls[1].openings) = 1
    /\ Lt(Wall_siding_area_sq_in(walls[1]), Num(0))
    /\ Gt(Wall_siding_area_sq_in(walls[1]), Frac(-1, 1000000))
    /\ ret.out = Tuple(<<Num(-1), Float(144)>>)
====
